---- MODULE Spec2Model ----
(***************************************************************************)
(* Model of the matching and caching engine of culturebridge-mvp:          *)
(*   backend/app/services/matching_service.py  (scorers, ranker, fallback) *)
(*   backend/app/utils/cache_utils.py          (CacheService)              *)
(*   backend/app/routers/matching.py           (POST /match handler)       *)
(*   backend/app/routers/profile.py            (profile writes)            *)
(*                                                                         *)
(* Numbers.  Python floats are modelled as exact rationals <<num, den>>    *)
(* with den > 0, kept in lowest terms.  round(score, 2) is modelled as an  *)
(* integer number of hundredths.  Ratings are integer hundredths too.      *)
(* Text.  A Python string made of words is a sequence of words; a word is  *)
(* a TLA+ string; str.lower is the table Lower.                            *)
(***************************************************************************)
EXTENDS Integers, Sequences, FiniteSets, TLC

\* ------------------------------------------------------------------------
\* Rational arithmetic (the model's stand-in for float arithmetic)
\* ------------------------------------------------------------------------

Abs(n) == IF n < 0 THEN -n ELSE n

RECURSIVE Gcd(_, _)
Gcd(a, b) == IF b = 0 THEN a ELSE Gcd(b, a % b)

Rat(n, d) ==
    IF n = 0 THEN <<0, 1>>
    ELSE LET g == Gcd(Abs(n), d) IN <<n \div g, d \div g>>

RatAdd(a, b) == Rat(a[1] * b[2] + b[1] * a[2], a[2] * b[2])

RatMul(a, b) == Rat(a[1] * b[1], a[2] * b[2])

RatLeq(a, b) == a[1] * b[2] <= b[1] * a[2]

RatLt(a, b) == a[1] * b[2] < b[1] * a[2]

RatMin(a, b) == IF RatLeq(a, b) THEN a ELSE b

Zero == <<0, 1>>

Half == <<1, 2>>

One == <<1, 1>>

Hundred == <<100, 1>>

\* round(x, 2) as an integer number of hundredths, ties to even
Round2(x) ==
    LET n == x[1] * 100
        d == x[2]
        q == n \div d
        rem == n - q * d
    IN  IF 2 * rem > d THEN q + 1
        ELSE IF 2 * rem < d THEN q
        ELSE IF q % 2 = 0 THEN q ELSE q + 1

\* ------------------------------------------------------------------------
\* Text helpers
\* ------------------------------------------------------------------------

\* str.lower() on the words of the model's vocabulary
Lower(w) ==
    CASE w = "English" -> "english"
      [] w = "Spanish" -> "spanish"
      [] w = "French" -> "french"
      [] w = "Spain" -> "spain"
      [] w = "France" -> "france"
      [] w = "Business" -> "business"
      [] w = "Etiquette" -> "etiquette"
      [] w = "Relocation" -> "relocation"
      [] OTHER -> w

ToSet(s) == {s[i] : i \in 1..Len(s)}

\* set(x.lower() for x in xs), xs a list of one-word strings
LowerSet(xs) == {Lower(xs[i]) : i \in 1..Len(xs)}

\* " ".join(phrases): each phrase is a sequence of words
RECURSIVE Join(_)
Join(phrases) ==
    IF phrases = <<>> THEN <<>>
    ELSE Head(phrases) \o Join(Tail(phrases))

\* The words of a text without folding their case
CaseSensitiveWords(text) == {text[i] : i \in 1..Len(text)}

\* set(text.lower().split())
LowerWords(text) == {Lower(text[i]) : i \in 1..Len(text)}

\* intersection / union if union > 0 else 0.0
Jaccard(a, b) ==
    LET intersection == Cardinality(a \cap b)
        union == Cardinality(a \cup b)
    IN  IF union > 0 THEN Rat(intersection, union) ELSE Zero

\* ------------------------------------------------------------------------
\* MatchingService: the scorers
\* ------------------------------------------------------------------------

\* self.timeout: seconds allowed to one embedding call and to one candidate
timeout == 10

\* A language score that divides the overlap by the client's set alone
language_share_of_client(client_languages, coach_languages) ==
    IF client_languages = <<>> \/ coach_languages = <<>> THEN Zero
    ELSE Rat(Cardinality(LowerSet(client_languages) \cap LowerSet(coach_languages)),
             Cardinality(LowerSet(client_languages)))

calculate_language_score(client_languages, coach_languages) ==
    IF client_languages = <<>> \/ coach_languages = <<>> THEN Zero
    ELSE Jaccard(LowerSet(client_languages), LowerSet(coach_languages))

calculate_country_score(client_countries, coach_countries) ==
    IF client_countries = <<>> \/ coach_countries = <<>> THEN Zero
    ELSE Jaccard(LowerSet(client_countries), LowerSet(coach_countries))

RECURSIVE Dot(_, _)
Dot(v1, v2) ==
    IF v1 = <<>> \/ v2 = <<>> THEN 0
    ELSE Head(v1) * Head(v2) + Dot(Tail(v1), Tail(v2))

\* np.linalg.norm on the model's vectors, whose norms are integers
Norm(v) == CHOOSE k \in 0..Dot(v, v) : k * k = Dot(v, v)

cosine_similarity(vec1, vec2) ==
    IF vec1 = <<>> \/ vec2 = <<>> THEN Zero
    ELSE IF Norm(vec1) = 0 \/ Norm(vec2) = 0 THEN Zero
    ELSE Rat(Dot(vec1, vec2), Norm(vec1) * Norm(vec2))

\* An embedding call's outcome, as the provider hands it to get_text_embedding:
\*   kind "ok"          the provider answered with vector vec
\*   kind "api_error"   the client library raised OpenAIError
\*   kind "timeout"     asyncio.wait_for gave up after self.timeout seconds
\*   kind "other_error" any exception that is neither (e.g. IndexError on an
\*                      answer without data)
\* dur is the time the call took, in seconds.
NoVec == <<>>

\* What get_text_embedding returns or raises.  A returned None is the record
\* with none = TRUE.
get_text_embedding(has_client, outcome) ==
    IF ~has_client THEN [raised |-> FALSE, none |-> TRUE, vec |-> NoVec]
    ELSE IF outcome.kind = "ok"
        THEN [raised |-> FALSE, none |-> FALSE, vec |-> outcome.vec]
    ELSE IF outcome.kind \in {"api_error", "timeout"}
        THEN [raised |-> FALSE, none |-> TRUE, vec |-> NoVec]
    ELSE [raised |-> TRUE, none |-> FALSE, vec |-> NoVec]

\* Time one get_text_embedding call takes
EmbeddingTime(has_client, outcome) == IF has_client THEN outcome.dur ELSE 0

\* A semantic scorer that issues an embedding call again when it returned None
goal_score_with_retry(has_client, client_goals, client_challenges, coach_expertise, o1, o2) ==
    IF (client_goals = <<>> /\ client_challenges = <<>>) \/ coach_expertise = <<>>
    THEN [raised |-> FALSE, score |-> Zero, calls |-> 0, time |-> 0]
    ELSE
      LET client_embedding == get_text_embedding(has_client, o1)
          coach_embedding == get_text_embedding(has_client, o2)
          t1 == EmbeddingTime(has_client, o1)
          t2 == EmbeddingTime(has_client, o2)
          n == IF has_client THEN 1 ELSE 0
          again == (IF client_embedding.none THEN n ELSE 0)
                   + (IF coach_embedding.none THEN n ELSE 0)
      IN  IF client_embedding.raised
          THEN [raised |-> TRUE, score |-> Zero, calls |-> n, time |-> t1]
          ELSE IF coach_embedding.raised
          THEN [raised |-> TRUE, score |-> Zero, calls |-> 2 * n, time |-> t1 + t2]
          ELSE IF client_embedding.none \/ client_embedding.vec = <<>>
                  \/ coach_embedding.none \/ coach_embedding.vec = <<>>
          THEN [raised |-> FALSE,
                score |-> Jaccard(LowerWords(Join(client_goals \o client_challenges)),
                                  LowerWords(Join(coach_expertise))),
                calls |-> 2 * n + again, time |-> t1 + t2]
          ELSE [raised |-> FALSE,
                score |-> cosine_similarity(client_embedding.vec, coach_embedding.vec),
                calls |-> 2 * n, time |-> t1 + t2]

\* calculate_goal_expertise_score: [raised, score, calls, time]
\* calls is the number of embedding calls issued, time the seconds awaited.
calculate_goal_expertise_score(has_client, client_goals, client_challenges, coach_expertise, o1, o2) ==
    IF (client_goals = <<>> /\ client_challenges = <<>>) \/ coach_expertise = <<>>
    THEN [raised |-> FALSE, score |-> Zero, calls |-> 0, time |-> 0]
    ELSE
      LET client_text == Join(client_goals \o client_challenges)
          coach_text == Join(coach_expertise)
          client_embedding == get_text_embedding(has_client, o1)
          coach_embedding == get_text_embedding(has_client, o2)
          t1 == EmbeddingTime(has_client, o1)
          t2 == EmbeddingTime(has_client, o2)
          n == IF has_client THEN 1 ELSE 0
      IN  IF client_embedding.raised
          THEN [raised |-> TRUE, score |-> Zero, calls |-> n, time |-> t1]
          ELSE IF coach_embedding.raised
          THEN [raised |-> TRUE, score |-> Zero, calls |-> 2 * n, time |-> t1 + t2]
          ELSE IF client_embedding.none \/ client_embedding.vec = <<>>
                  \/ coach_embedding.none \/ coach_embedding.vec = <<>>
          THEN [raised |-> FALSE,
                score |-> Jaccard(LowerWords(client_text), LowerWords(coach_text)),
                calls |-> 2 * n, time |-> t1 + t2]
          ELSE [raised |-> FALSE,
                score |-> cosine_similarity(client_embedding.vec, coach_embedding.vec),
                calls |-> 2 * n, time |-> t1 + t2]

\* calculate_budget_score: [raised, score]; raised is ZeroDivisionError
calculate_budget_score(client_budget_max, coach_rate) ==
    IF coach_rate <= 0 THEN [raised |-> FALSE, score |-> Half]
    ELSE IF coach_rate <= client_budget_max THEN [raised |-> FALSE, score |-> One]
    ELSE IF client_budget_max = 0 THEN [raised |-> TRUE, score |-> Zero]
    ELSE LET overage == Rat(coach_rate - client_budget_max, client_budget_max)
         IN  IF RatLeq(overage, <<1, 5>>)
             THEN [raised |-> FALSE, score |-> Half]
             ELSE [raised |-> FALSE, score |-> Zero]

\* coach_availability is modelled by whether the stored payload is non-empty
calculate_availability_score(client_timezone, coach_availability) ==
    IF ~coach_availability THEN Half
    ELSE IF coach_availability THEN One ELSE Zero

\* The five weights of calculate_match_score, in hundredths
WeightLanguage == 25

WeightCountry == 20

WeightGoal == 30

WeightBudget == 15

WeightAvailability == 10

\* A weighted term that ignores its weight: with it the total is no longer the
\* 0.25/0.20/0.30/0.15/0.10 sum
WeightedFlat(score, weight) == RatMul(score, <<20, 100>>)

Weighted(score, weight) == RatMul(score, <<weight, 100>>)

\* The weighted sum and return of calculate_match_score, given what the five
\* scorers produced (goal and budget as [raised, score, ...])
weighted_sum(language_score, country_score, goal, budget, availability_score) ==
    LET total_score ==
            RatMul(RatAdd(RatAdd(RatAdd(RatAdd(
                Weighted(language_score, WeightLanguage),
                Weighted(country_score, WeightCountry)),
                Weighted(goal.score, WeightGoal)),
                Weighted(budget.score, WeightBudget)),
                Weighted(availability_score, WeightAvailability)), Hundred)
        failed == goal.raised \/ budget.raised
    IN  [raised |-> failed,
         language_score |-> language_score,
         country_score |-> country_score,
         goal_score |-> IF goal.raised THEN Zero ELSE goal.score,
         budget_score |-> IF failed THEN Zero ELSE budget.score,
         availability_score |-> IF failed THEN Zero ELSE availability_score,
         total |-> IF failed THEN Zero ELSE RatMin(total_score, Hundred),
         calls |-> goal.calls,
         time |-> goal.time]

\* calculate_match_score(client_data, coach_data) with the outcomes o1, o2 of
\* the embedding calls it may issue.  The scorers run in the code's order, so
\* an exception of the goal scorer comes before one of the budget scorer.
\* Returns [raised, the five component scores, total, calls, time].
calculate_match_score(has_client, client_data, coach_data, o1, o2) ==
    weighted_sum(
        calculate_language_score(client_data.languages, coach_data.languages),
        calculate_country_score(client_data.countries, coach_data.countries),
        calculate_goal_expertise_score(has_client, client_data.goals,
            client_data.challenges, coach_data.expertise, o1, o2),
        calculate_budget_score(client_data.budget_max, coach_data.hourly_rate),
        calculate_availability_score(client_data.timezone, coach_data.availability))

\* ------------------------------------------------------------------------
\* Inputs of the scoring functions
\* ------------------------------------------------------------------------

ClientLanguages == {<<>>, <<"English", "Spanish">>, <<"spanish">>}

CoachLanguages ==
    {<<>>, <<"Spanish">>, <<"French">>, <<"spanish", "English", "English">>}

ClientCountries == {<<>>, <<"Spain">>}

CoachCountries == {<<"Spain">>, <<"France">>}

ClientGoals == {<<>>, << <<"business", "etiquette">> >>}

ClientChallenges == {<<>>, << <<"Relocation">> >>}

CoachExpertise ==
    {<<>>, << <<"Business", "Etiquette">> >>, << <<"relocation">>, <<"business">> >>}

BudgetMaxes == {0, 150}

HourlyRates == {0, 100, 180, 200}

\* normalize_client_data's result, restricted to the fields the scorers read
ClientFeatureSets ==
    [languages : ClientLanguages, countries : ClientCountries,
     goals : ClientGoals, challenges : ClientChallenges,
     budget_max : BudgetMaxes, timezone : {"UTC"}]

\* normalize_coach_data's result, restricted to the fields the scorers read
CoachFeatureSets ==
    [languages : CoachLanguages, countries : CoachCountries,
     expertise : CoachExpertise, hourly_rate : HourlyRates,
     availability : BOOLEAN]

EmbVectors == {<<3, 4>>, <<-3, -4>>, <<4, 3>>, <<0, 0>>, <<>>}

\* Seconds a call that is answered (or fails) before its timeout may take
CallDurations == {1}

EmbOutcomes ==
    [kind : {"ok"}, vec : EmbVectors, dur : CallDurations]
    \cup [kind : {"api_error", "other_error"}, vec : {NoVec}, dur : {1}]
    \cup [kind : {"timeout"}, vec : {NoVec}, dur : {timeout}]

NoOutcome == [kind |-> "none", vec |-> NoVec, dur |-> 0]

NoScore ==
    [raised |-> FALSE, language_score |-> Zero, country_score |-> Zero,
     goal_score |-> Zero, budget_score |-> Zero, availability_score |-> Zero,
     total |-> Zero, calls |-> 0, time |-> 0]

\* ------------------------------------------------------------------------
\* Users, client profiles and coaches
\* ------------------------------------------------------------------------

\* ClientProfile.validate_quiz_data's required_fields
RequiredFields ==
    {"target_countries", "cultural_goals", "preferred_languages", "industry",
     "family_status", "previous_expat_experience", "timeline_urgency",
     "budget_range", "coaching_style", "specific_challenges"}

QuizComplete ==
    [target_countries |-> <<"Spain">>,
     cultural_goals |-> << <<"business", "etiquette">> >>,
     preferred_languages |-> <<"English", "Spanish">>,
     industry |-> "tech",
     family_status |-> "single",
     previous_expat_experience |-> FALSE,
     timeline_urgency |-> 3,
     budget_range |-> [min |-> 50, max |-> 150],
     coaching_style |-> "direct",
     specific_challenges |-> <<>>]

\* A complete quiz whose budget_range.max is 0 (accepted by QuizData)
QuizZeroBudget == [QuizComplete EXCEPT !.budget_range = [min |-> 0, max |-> 0]]

\* A quiz that lacks one required factor
QuizIncomplete ==
    [f \in (DOMAIN QuizComplete) \ {"budget_range"} |-> QuizComplete[f]]

NoQuiz == [f \in {} |-> 0]

\* A quiz that lacks the required factor f
QuizLacking(f) == [g \in (DOMAIN QuizComplete) \ {f} |-> QuizComplete[g]]

\* The quizzes that lack exactly one required factor
LackingQuizzes == {QuizLacking(f) : f \in RequiredFields}

Users == {"alice", "bob", "carol", "dave", "erin"}

\* users.role and the client_profiles row of each user
InitialProfiles ==
    [u \in Users |->
        CASE u = "alice" -> [role |-> "client", has_profile |-> TRUE,
                             quiz_data |-> QuizComplete, timezone |-> "UTC"]
          [] u = "bob" -> [role |-> "client", has_profile |-> TRUE,
                           quiz_data |-> QuizZeroBudget, timezone |-> "UTC"]
          [] u = "carol" -> [role |-> "client", has_profile |-> TRUE,
                             quiz_data |-> QuizIncomplete, timezone |-> "UTC"]
          [] u = "dave" -> [role |-> "coach", has_profile |-> FALSE,
                            quiz_data |-> NoQuiz, timezone |-> "UTC"]
          [] OTHER -> [role |-> "client", has_profile |-> FALSE,
                       quiz_data |-> NoQuiz, timezone |-> "UTC"]]

\* A validation that only rejects an empty quiz
validate_quiz_nonempty(quiz_data) == DOMAIN quiz_data # {}

validate_quiz_data(quiz_data) ==
    IF DOMAIN quiz_data = {} THEN FALSE
    ELSE \A field \in RequiredFields : field \in DOMAIN quiz_data

\* quiz.get(field, default)
QuizGet(quiz, field, default) ==
    IF field \in DOMAIN quiz THEN quiz[field] ELSE default

DefaultBudgetMax == 500

normalize_client_data(profile) ==
    LET quiz == profile.quiz_data
        budget_range == QuizGet(quiz, "budget_range", NoQuiz)
    IN  [languages |-> QuizGet(quiz, "preferred_languages", <<>>),
         countries |-> QuizGet(quiz, "target_countries", <<>>),
         goals |-> QuizGet(quiz, "cultural_goals", <<>>),
         challenges |-> QuizGet(quiz, "specific_challenges", <<>>),
         budget_max |-> QuizGet(budget_range, "max", DefaultBudgetMax),
         timezone |-> profile.timezone]

\* The coach_profiles rows the model draws its tables from.  rating is in
\* hundredths; hourly_rate 0 stands for an unset rate (the code reads both as 0).
CoachPool ==
    [c \in 1..5 |->
        CASE c = 1 -> [id |-> 1, languages |-> <<"Spanish">>, countries |-> <<"Spain">>,
                       expertise |-> << <<"Business", "Etiquette">> >>,
                       hourly_rate |-> 100, rating |-> 450, availability |-> FALSE,
                       is_verified |-> TRUE, user_active |-> TRUE,
                       photo_url |-> "photo_a"]
          [] c = 2 -> [id |-> 2, languages |-> <<"Spanish">>, countries |-> <<"Spain">>,
                       expertise |-> << <<"Business", "Etiquette">> >>,
                       hourly_rate |-> 100, rating |-> 480, availability |-> FALSE,
                       is_verified |-> TRUE, user_active |-> TRUE,
                       photo_url |-> "photo_a"]
          [] c = 3 -> [id |-> 3, languages |-> <<"French">>, countries |-> <<"France">>,
                       expertise |-> << <<"relocation">>, <<"business">> >>,
                       hourly_rate |-> 200, rating |-> 490, availability |-> TRUE,
                       is_verified |-> TRUE, user_active |-> TRUE,
                       photo_url |-> "photo_a"]
          [] c = 4 -> [id |-> 4, languages |-> <<>>, countries |-> <<>>,
                       expertise |-> <<>>,
                       hourly_rate |-> 0, rating |-> 0, availability |-> FALSE,
                       is_verified |-> TRUE, user_active |-> TRUE,
                       photo_url |-> "photo_a"]
          [] OTHER -> [id |-> 5, languages |-> <<"Spanish">>, countries |-> <<"Spain">>,
                       expertise |-> << <<"Business", "Etiquette">> >>,
                       hourly_rate |-> 100, rating |-> 500, availability |-> TRUE,
                       is_verified |-> FALSE, user_active |-> TRUE,
                       photo_url |-> "photo_a"]]

\* Largest number of coach_profiles rows in a table
MaxCoaches == 3

normalize_coach_data(coach) ==
    [languages |-> coach.languages,
     countries |-> coach.countries,
     expertise |-> coach.expertise,
     hourly_rate |-> coach.hourly_rate,
     availability |-> coach.availability]

\* ORDER BY rating DESC; rows of equal rating come in id order
RECURSIVE OrderByRating(_, _)
OrderByRating(db, ids) ==
    IF ids = {} THEN <<>>
    ELSE LET first == CHOOSE c \in ids :
                 \A d \in ids : \/ db[c].rating > db[d].rating
                                \/ (db[c].rating = db[d].rating /\ c <= d)
         IN  <<db[first]>> \o OrderByRating(db, ids \ {first})

Min(a, b) == IF a <= b THEN a ELSE b

\* matches[:limit]
Take(s, limit) == SubSeq(s, 1, Min(limit, Len(s)))

\* CoachProfileRepository.get_active_coaches(limit=limit)
get_active_coaches(db, limit) ==
    Take(OrderByRating(db, {c \in DOMAIN db :
                               db[c].is_verified /\ db[c].user_active}), limit)

\* The limit find_matches passes to get_active_coaches
CandidateLimit == 100

\* ------------------------------------------------------------------------
\* MatchingService: ranking and fallback
\* ------------------------------------------------------------------------

\* One entry of find_matches' list; scores are in hundredths
MatchEntry(coach, score) ==
    [coach_id |-> coach.id, photo_url |-> coach.photo_url, rating |-> coach.rating,
     is_verified |-> coach.is_verified,
     match_score |-> Round2(score), confidence_score |-> Round2(score)]

\* key=lambda x: (x['match_score'], x['rating']), compared as tuples
KeyGreater(a, b) ==
    \/ a.match_score > b.match_score
    \/ (a.match_score = b.match_score /\ a.rating > b.rating)

RECURSIVE InsertDescending(_, _)
InsertDescending(sorted, x) ==
    IF sorted = <<>> THEN <<x>>
    ELSE IF KeyGreater(x, Head(sorted)) THEN <<x>> \o sorted
    ELSE <<Head(sorted)>> \o InsertDescending(Tail(sorted), x)

\* matches.sort(key=..., reverse=True): a stable sort, largest key first
RECURSIVE SortMatches(_)
SortMatches(matches) ==
    IF matches = <<>> THEN <<>>
    ELSE InsertDescending(SortMatches(SubSeq(matches, 1, Len(matches) - 1)),
                          matches[Len(matches)])

\* A ranking that truncates without sorting
RankUnsorted(matches, limit) == Take(matches, limit)

\* The tail of find_matches' normal path: sort, then matches[:limit]
RankMatches(matches, limit) == Take(SortMatches(matches), limit)

\* A fallback that lists every active coach, whatever the limit
fallback_ignoring_limit(db, limit) ==
    LET coaches == get_active_coaches(db, CandidateLimit)
    IN  [i \in 1..Len(coaches) |-> MatchEntry(coaches[i], Zero)]

get_fallback_matches(db, limit) ==
    LET coaches == get_active_coaches(db, limit)
    IN  [i \in 1..Len(coaches) |-> MatchEntry(coaches[i], Zero)]

\* A dict as Python holds it: its items <<key, value>> in insertion order.
\* DictItems(d, order, nested) lists the fields of the quiz d in the order
\* `order`, the keys of its budget_range in the order `nested`.
DictItems(d, order, nested) ==
    LET present == SelectSeq(order, LAMBDA f : f \in DOMAIN d)
        inner(b) == LET keys == SelectSeq(nested, LAMBDA f : f \in DOMAIN b)
                    IN  [i \in 1..Len(keys) |-> <<keys[i], b[keys[i]]>>]
    IN  [i \in 1..Len(present) |->
            <<present[i], IF present[i] = "budget_range"
                          THEN inner(d[present[i]]) ELSE d[present[i]]>>]

\* The order of QuizData's fields, in which model_dump builds the quiz
SchemaOrder ==
    <<"target_countries", "cultural_goals", "preferred_languages", "industry",
      "family_status", "previous_expat_experience", "timeline_urgency",
      "budget_range", "coaching_style", "specific_challenges">>

\* The quizzes held by client_profiles rows
StoredQuizzes ==
    {QuizComplete, QuizZeroBudget, QuizIncomplete, NoQuiz} \cup LackingQuizzes

\* The items of each stored quiz, in the order the row holds them
StoredItemsOf ==
    [q \in StoredQuizzes |-> DictItems(q, SchemaOrder, <<"min", "max">>)]

\* The quiz of a client_profiles row as the handler reads it
StoredItems(quiz_data) == StoredItemsOf[quiz_data]

\* Quiz contents given to generate_cache_key on its own: two that differ in
\* budget_range, one that differs in industry
KeyQuizzes ==
    {QuizComplete, QuizZeroBudget, [QuizComplete EXCEPT !.industry = "finance"]}

\* Insertion orders of the quiz's fields and of budget_range's keys
KeyOrders ==
    {SchemaOrder, [i \in 1..Len(SchemaOrder) |-> SchemaOrder[Len(SchemaOrder) + 1 - i]]}

NestedOrders == {<<"min", "max">>, <<"max", "min">>}

KeyPayloads ==
    {DictItems(q, o, n) : q \in KeyQuizzes, o \in KeyOrders, n \in NestedOrders}

\* The keys of the quiz and of budget_range in string order
SortedKeys ==
    <<"budget_range", "coaching_style", "cultural_goals", "family_status",
      "industry", "max", "min", "preferred_languages",
      "previous_expat_experience", "specific_challenges", "target_countries",
      "timeline_urgency">>

\* The items of a dict, nested dicts included, in the string order of their
\* keys; lists keep their order
RECURSIVE SortItems(_)
SortItems(items) ==
    LET present == {items[i][1] : i \in 1..Len(items)}
        keys == SelectSeq(SortedKeys, LAMBDA f : f \in present)
        value(f) == (items[CHOOSE i \in 1..Len(items) : items[i][1] = f])[2]
    IN  [i \in 1..Len(keys) |-> <<keys[i], IF keys[i] = "budget_range"
                                           THEN SortItems(value(keys[i]))
                                           ELSE value(keys[i])>>]

\* SortItems, tabulated over the dicts the model builds
SortedTexts ==
    [items \in KeyPayloads \cup {StoredItemsOf[q] : q \in StoredQuizzes} |->
        SortItems(items)]

\* json.dumps(items) without sort_keys: the items in insertion order
json_dumps_insertion_order(items) == items

\* json.dumps(items, sort_keys=True): the text lists the items of every dict
\* in the string order of their keys.  The text is modelled by the sequence of
\* items it spells out.
json_dumps_sort_keys(items) == SortedTexts[items]

\* generate_cache_key: "match:{client_id}:{md5 of json.dumps(quiz, sort_keys)}".
\* quiz_data is the dict's items in insertion order; the digest is modelled by
\* the text it digests.
generate_cache_key(client_id, quiz_data) ==
    [prefix |-> "match", client_id |-> client_id,
     quiz_hash |-> json_dumps_sort_keys(quiz_data)]

\* ------------------------------------------------------------------------
\* CacheService
\* ------------------------------------------------------------------------
\* The store maps each live key to [value, expires]: value is the string the
\* code wrote (json.dumps's result) or a string no JSON parser accepts; expires
\* is the hour at which the store drops the key.  Every operation takes fault:
\* whether the store raises RedisError on this call.

EmptyPayload == [matches |-> <<>>, total_matches |-> 0, generated_at |-> 0]

json_dumps(value) == [kind |-> "json", doc |-> value]

Undecodable == [kind |-> "garbage", doc |-> EmptyPayload]

\* A parser that loses the list of matches
json_loads_truncated(text) ==
    IF text.kind = "json"
    THEN [raised |-> FALSE, value |-> [text.doc EXCEPT !.matches = <<>>]]
    ELSE [raised |-> TRUE, value |-> EmptyPayload]

\* json.loads: [raised, value]; raised is JSONDecodeError
json_loads(text) ==
    IF text.kind = "json" THEN [raised |-> FALSE, value |-> text.doc]
    ELSE [raised |-> TRUE, value |-> EmptyPayload]

\* ttl_hours of set_match_cache as called by get_coach_matches
TtlHours == 24

StorePut(st, key, entry) ==
    [k \in DOMAIN st \cup {key} |-> IF k = key THEN entry ELSE st[k]]

StoreDrop(st, keys) == [k \in DOMAIN st \ keys |-> st[k]]

\* A get without its except clause: a store error leaves it as an exception
cache_get_raising(is_available, st, key, fault) ==
    LET none == [raised |-> FALSE, found |-> FALSE, value |-> EmptyPayload]
    IN  IF ~is_available THEN none
        ELSE IF fault THEN [raised |-> TRUE, found |-> FALSE, value |-> EmptyPayload]
        ELSE IF key \notin DOMAIN st THEN none
        ELSE LET loaded == json_loads(st[key].value)
             IN  IF loaded.raised THEN none
                 ELSE [raised |-> FALSE, found |-> TRUE, value |-> loaded.value]

\* CacheService.get: [raised, found, value]; found = FALSE is a returned None
cache_get(is_available, st, key, fault) ==
    LET none == [raised |-> FALSE, found |-> FALSE, value |-> EmptyPayload]
    IN  IF ~is_available THEN none
        ELSE IF fault THEN none
        ELSE IF key \notin DOMAIN st THEN none
        ELSE LET loaded == json_loads(st[key].value)
             IN  IF loaded.raised THEN none
                 ELSE [raised |-> FALSE, found |-> TRUE, value |-> loaded.value]

\* A set that gives the entry twice the expiry it was asked for
cache_set_long_expiry(is_available, st, key, value, expires, fault) ==
    IF ~is_available THEN [raised |-> FALSE, ok |-> FALSE, store |-> st]
    ELSE IF fault THEN [raised |-> TRUE, ok |-> FALSE, store |-> st]
    ELSE [raised |-> FALSE, ok |-> TRUE,
          store |-> StorePut(st, key, [value |-> json_dumps(value),
                                       expires |-> expires + TtlHours])]

\* CacheService.set: [raised, ok, store].  When setex or json.dumps raises, the
\* except clause names json.JSONEncodeError, which the json module does not
\* define: evaluating the clause raises AttributeError out of set.
cache_set(is_available, st, key, value, expires, fault) ==
    IF ~is_available THEN [raised |-> FALSE, ok |-> FALSE, store |-> st]
    ELSE IF fault THEN [raised |-> TRUE, ok |-> FALSE, store |-> st]
    ELSE [raised |-> FALSE, ok |-> TRUE,
          store |-> StorePut(st, key, [value |-> json_dumps(value), expires |-> expires])]

\* A pattern match that looks at the prefix only
KeyMatchesPrefix(key, pattern) == key.prefix = pattern.prefix

\* A key pattern "prefix:client_id:*"; client_id "*" stands for "prefix:*"
KeyMatches(key, pattern) ==
    /\ key.prefix = pattern.prefix
    /\ (pattern.client_id = "*" \/ key.client_id = pattern.client_id)

\* CacheService.delete_pattern: [raised, deleted, store]
cache_delete_pattern(is_available, st, pattern, fault) ==
    IF ~is_available THEN [raised |-> FALSE, deleted |-> 0, store |-> st]
    ELSE IF fault THEN [raised |-> FALSE, deleted |-> 0, store |-> st]
    ELSE LET keys == {k \in DOMAIN st : KeyMatches(k, pattern)}
         IN  [raised |-> FALSE, deleted |-> Cardinality(keys),
              store |-> StoreDrop(st, keys)]

\* CacheService.exists: [raised, value]
cache_exists(is_available, st, key, fault) ==
    IF ~is_available THEN [raised |-> FALSE, value |-> FALSE]
    ELSE IF fault THEN [raised |-> FALSE, value |-> FALSE]
    ELSE [raised |-> FALSE, value |-> key \in DOMAIN st]

\* CacheService.get_ttl: [raised, none, ttl]; the store answers a negative
\* number for a key it does not hold
cache_get_ttl(is_available, st, t, key, fault) ==
    LET none == [raised |-> FALSE, none |-> TRUE, ttl |-> 0]
    IN  IF ~is_available THEN none
        ELSE IF fault THEN none
        ELSE LET ttl == IF key \in DOMAIN st THEN st[key].expires - t ELSE -2
             IN  IF ttl > 0 THEN [raised |-> FALSE, none |-> FALSE, ttl |-> ttl]
                 ELSE none

invalidate_client_match_cache(is_available, st, client_id, fault) ==
    cache_delete_pattern(is_available, st,
                         [prefix |-> "match", client_id |-> client_id], fault)

invalidate_all_match_cache(is_available, st, fault) ==
    cache_delete_pattern(is_available, st,
                         [prefix |-> "match", client_id |-> "*"], fault)

\* invalidate_endpoint_cache("coaches_list")
invalidate_endpoint_cache(is_available, st, fault) ==
    cache_delete_pattern(is_available, st,
                         [prefix |-> "coaches_list", client_id |-> "*"], fault)

\* ------------------------------------------------------------------------
\* find_matches: one candidate under its deadline
\* ------------------------------------------------------------------------

\* asyncio.wait_for(coroutine, timeout=self.timeout) around a call of
\* calculate_match_score that would produce r if left to run, its first
\* embedding call taking first_call seconds: [kind, score, time, calls, kinds].
\*   kind "scored"   the score came back before the deadline
\*   kind "raised"   calculate_match_score raised before the deadline
\*   kind "timeout"  the deadline came first: asyncio.TimeoutError
\* The deadline is armed before the first embedding call's own timeout, which
\* has the same length, so a first call that times out always loses to it
\* (first_cut); otherwise the deadline wins when the calls take longer than it.
\* kinds are the outcomes of the embedding calls issued; "cancelled" is a call
\* the deadline cut short.  expired is the kind a passed deadline results in.
wait_for(r, first_call, o1, o2, expired) ==
    LET t1 == IF r.calls >= 1 THEN first_call ELSE 0
        first_cut == r.calls >= 1 /\ t1 >= timeout
        late == first_cut \/ r.time > timeout
        seen == IF r.calls = 0 THEN {}
                ELSE IF late /\ first_cut THEN {o1.kind}
                ELSE IF r.calls = 1 THEN {o1.kind}
                ELSE IF late THEN {o1.kind, "cancelled"}
                ELSE {o1.kind, o2.kind}
    IN  [kind |-> IF late THEN expired ELSE IF r.raised THEN "raised" ELSE "scored",
         score |-> IF late \/ r.raised THEN Zero ELSE r.total,
         time |-> IF late THEN timeout ELSE r.time,
         calls |-> IF late /\ first_cut THEN 1 ELSE r.calls,
         kinds |-> seen]

\* A per-candidate deadline whose expiry is not caught by the loop's
\* `except asyncio.TimeoutError` and so reaches find_matches' `except Exception`
deadline_uncaught(has_client, client_data, coach_data, o1, o2) ==
    wait_for(calculate_match_score(has_client, client_data, coach_data, o1, o2),
             EmbeddingTime(has_client, o1), o1, o2, "raised")

\* asyncio.wait_for(self.calculate_match_score(client_data, coach_data),
\* timeout=self.timeout), its expiry caught by `except asyncio.TimeoutError`
score_with_deadline(has_client, client_data, coach_data, o1, o2) ==
    wait_for(calculate_match_score(has_client, client_data, coach_data, o1, o2),
             EmbeddingTime(has_client, o1), o1, o2, "timeout")

\* The provider's answers in the request-level specification: a vector in
\* time, no answer within the timeout, or an exception get_text_embedding does
\* not catch (SpecScore covers the vectors and the caught provider errors)
ProviderOutcomes ==
    {o \in EmbOutcomes :
        /\ o.kind \in {"ok", "timeout", "other_error"}
        /\ o.kind = "ok" => o.vec = <<3, 4>>}

\* ------------------------------------------------------------------------
\* State
\* ------------------------------------------------------------------------

\* Largest limit a match request asks for (MatchRequest accepts 1..50)
MaxLimit == 2

\* Number of HTTP requests one behaviour makes
MaxRequests == 2

\* Hours by which the clock advances, and the hour at which it stops
ClockStep == 12

MaxClock == 24

NoKey == [prefix |-> "none", client_id |-> "none", quiz_hash |-> <<>>]

NoClientData ==
    [languages |-> <<>>, countries |-> <<>>, goals |-> <<>>, challenges |-> <<>>,
     budget_max |-> 0, timezone |-> "UTC"]

NoResponse ==
    [status |-> 0, matches |-> <<>>, total_matches |-> 0, cached |-> FALSE,
     generated_at |-> 0]

\* What the cache endpoints answer: exists and ttl_seconds of MatchCacheInfo,
\* and the number of keys DELETE /match/cache removed; fault is whether the
\* store raised during the call
NoInfo ==
    [exists |-> FALSE, ttl_none |-> TRUE, ttl |-> 0, deleted |-> 0, fault |-> FALSE]

\* A request slot before its request arrives; overlaps records whether another
\* request was being scored when this one arrived
IdleRequest ==
    [pc |-> "idle", op |-> "none", user |-> "none", limit |-> 0, use_cache |-> FALSE,
     cache_key |-> NoKey, lookup |-> "none", client_data |-> NoClientData,
     coaches |-> <<>>, idx |-> 0, matches |-> <<>>, dropped |-> {}, kinds |-> {},
     calls |-> 0, elapsed |-> 0, path |-> "none", found |-> <<>>, exc |-> FALSE,
     set_result |-> "none", response |-> NoResponse, info |-> NoInfo,
     overlaps |-> FALSE]

VARIABLES
    sc_pc,       \* function harness: "idle" | "ready" | "returned" | "raised"
    sc_args,     \* function harness: the arguments of the function under test
    sc_emb,      \* function harness: the labels of the two embedding outcomes
    sc_result,   \* function harness: what the function under test produced
    has_client,  \* MatchingService.client is set (OPENAI_API_KEY configured)
    profiles,    \* user id -> [role, has_profile, quiz_data, timezone]
    coach_db,    \* coach id -> coach_profiles row
    is_available,\* CacheService.is_available, fixed when the service is built
    store,       \* the key-value store: key -> [value, expires]
    origin,      \* bookkeeping: key -> which path wrote the store's entry
    now,         \* the clock, in hours
    req,         \* slot -> the HTTP request in that slot
    started      \* number of HTTP requests made so far

scoreVars == <<sc_pc, sc_args, sc_emb, sc_result>>

sysVars ==
    <<has_client, profiles, coach_db, is_available, store, origin, now, req,
      started>>

vars ==
    <<sc_pc, sc_args, sc_emb, sc_result, has_client, profiles, coach_db,
      is_available, store, origin, now, req, started>>

EmptyStore == [k \in {} |-> 0]

\* Requests one behaviour makes: a behaviour whose service calls the embedding
\* provider is followed through one request per slot, one without it through
\* MaxRequests
RequestBudget == IF has_client THEN Cardinality(DOMAIN req) ELSE MaxRequests

\* ------------------------------------------------------------------------
\* Specification SpecScore: calculate_match_score on every input
\* ------------------------------------------------------------------------

InitScore ==
    /\ sc_pc = "ready"
    /\ sc_args \in [has_client : BOOLEAN, client_data : ClientFeatureSets,
                    coach_data : CoachFeatureSets]
    /\ sc_emb = <<"none", "none">>
    /\ sc_result = NoScore
    /\ has_client = TRUE
    /\ profiles = InitialProfiles
    /\ coach_db = [c \in {} |-> 0]
    /\ is_available = FALSE
    /\ store = EmptyStore
    /\ origin = EmptyStore
    /\ now = 0
    /\ req = [r \in {} |-> IdleRequest]
    /\ started = 0

\* How the harness records an embedding outcome: its kind, an answer whose
\* vector is empty as "empty"
OutcomeLabel(o) == IF o.kind = "ok" /\ o.vec = NoVec THEN "empty" ELSE o.kind

\* One call of calculate_match_score; the provider answers with o1 and o2
CallCalculateMatchScore ==
    /\ sc_pc = "ready"
    /\ \E o1 \in (IF /\ sc_args.has_client
                      /\ sc_args.coach_data.expertise # <<>>
                      /\ \/ sc_args.client_data.goals # <<>>
                         \/ sc_args.client_data.challenges # <<>>
                   THEN EmbOutcomes ELSE {NoOutcome}) :
       \E o2 \in (IF o1.kind \in {"none", "other_error"} THEN {NoOutcome}
                  ELSE EmbOutcomes) :
         LET r == calculate_match_score(sc_args.has_client, sc_args.client_data,
                                        sc_args.coach_data, o1, o2)
         IN  /\ sc_result' = r
             /\ sc_emb' = IF r.calls = 0 THEN <<"none", "none">>
                          ELSE IF r.calls = 1 THEN <<OutcomeLabel(o1), "none">>
                          ELSE <<OutcomeLabel(o1), OutcomeLabel(o2)>>
             /\ sc_pc' = IF r.raised THEN "raised" ELSE "returned"
    /\ UNCHANGED sc_args
    /\ UNCHANGED sysVars

NextScore == CallCalculateMatchScore

SpecScore == InitScore /\ [][NextScore]_vars

\* ------------------------------------------------------------------------
\* Specification SpecKey: generate_cache_key on pairs of inputs
\* ------------------------------------------------------------------------

InitKey ==
    /\ sc_pc = "ready"
    /\ sc_args \in [id1 : {"alice", "bob"}, id2 : {"alice", "bob"},
                    quiz1 : KeyPayloads, quiz2 : KeyPayloads]
    /\ sc_emb = <<"none", "none">>
    /\ sc_result = NoScore
    /\ has_client = FALSE
    /\ profiles = InitialProfiles
    /\ coach_db = [c \in {} |-> 0]
    /\ is_available = FALSE
    /\ store = EmptyStore
    /\ origin = EmptyStore
    /\ now = 0
    /\ req = [r \in {} |-> IdleRequest]
    /\ started = 0

\* Two calls of generate_cache_key
CallGenerateCacheKey ==
    /\ sc_pc = "ready"
    /\ sc_result' = [key1 |-> generate_cache_key(sc_args.id1, sc_args.quiz1),
                     key2 |-> generate_cache_key(sc_args.id2, sc_args.quiz2)]
    /\ sc_pc' = "returned"
    /\ UNCHANGED <<sc_args, sc_emb>>
    /\ UNCHANGED sysVars

NextKey == CallGenerateCacheKey

SpecKey == InitKey /\ [][NextKey]_vars

\* ------------------------------------------------------------------------
\* Specification Spec: the POST /match handler, the cache endpoints, the clock
\* ------------------------------------------------------------------------

\* The tables of coach_profiles rows a behaviour may start from
CoachTables ==
    {[c \in ids |-> CoachPool[c]] :
        ids \in {a..b : a \in DOMAIN CoachPool, b \in 0..5} \cap
                {x \in SUBSET (DOMAIN CoachPool) : Cardinality(x) <= MaxCoaches}}

Slots == {1}

\* A key of the coaches-list response cache, which shares the store
ListingKey == [prefix |-> "coaches_list", client_id |-> "none", quiz_hash |-> <<>>]

\* The shared store when the service starts: empty, or holding under one
\* client's match key a value another writer left that is not JSON, next to
\* an entry of the coaches-list cache
InitialStores ==
    {EmptyStore,
     [k \in {generate_cache_key("alice", StoredItems(QuizComplete)), ListingKey} |->
         IF k = ListingKey
         THEN [value |-> json_dumps(EmptyPayload), expires |-> TtlHours]
         ELSE [value |-> Undecodable, expires |-> TtlHours]]}

\* The deployments a behaviour may start from: with the embedding provider
\* configured the store is reachable and empty; without it the store may be
\* unreachable, and may hold a foreign value
Configurations ==
    {[has_client |-> TRUE, is_available |-> TRUE, store |-> EmptyStore]} \cup
    {[has_client |-> FALSE, is_available |-> a, store |-> s] :
        a \in BOOLEAN, s \in InitialStores}

Init ==
    /\ sc_pc = "idle"
    /\ sc_args = [has_client |-> TRUE, client_data |-> NoClientData,
                  coach_data |-> normalize_coach_data(CoachPool[4])]
    /\ sc_emb = <<"none", "none">>
    /\ sc_result = NoScore
    /\ \E cfg \in Configurations :
         /\ has_client = cfg.has_client
         /\ is_available = cfg.is_available
         /\ store = cfg.store
    /\ profiles = InitialProfiles
    /\ coach_db \in CoachTables
    /\ origin = [k \in DOMAIN store |-> "foreign"]
    /\ now = 0
    /\ req = [r \in Slots |-> IdleRequest]
    /\ started = 0

ErrorResponse(code) ==
    [status |-> code, matches |-> <<>>, total_matches |-> 0, cached |-> FALSE,
     generated_at |-> 0]

\* The handler's steps after find_matches has returned `found`: build
\* response_data, set_match_cache, answer.  An exception of set_match_cache is
\* caught by the handler's `except Exception` and answered with 500.
\* [req, store, wrote]
FinishFresh(q, found, path, exc, st, t, set_fault) ==
    LET response_data ==
            [matches |-> found, total_matches |-> Len(found), generated_at |-> t]
        w == cache_set(is_available, st, q.cache_key, response_data,
                       t + TtlHours, set_fault)
        answer == IF w.raised THEN ErrorResponse(500)
                  ELSE [status |-> 200, matches |-> found,
                        total_matches |-> Len(found), cached |-> FALSE,
                        generated_at |-> t]
    IN  [req |-> [q EXCEPT !.pc = "done", !.path = path, !.found = found,
                           !.exc = exc,
                           !.set_result = IF w.raised THEN "raised"
                                          ELSE IF w.ok THEN "stored"
                                          ELSE "not_stored",
                           !.response = answer],
         store |-> w.store,
         wrote |-> w.ok]

\* The bookkeeping of which path wrote each live entry
OriginAfter(st, key, wrote, path) ==
    [k \in DOMAIN st |->
        IF wrote /\ k = key THEN path
        ELSE IF k \in DOMAIN origin THEN origin[k] ELSE "foreign"]

\* The request in slot r ends as f = FinishFresh(...) says
end_request(r, cache_key, f) ==
    /\ req' = [req EXCEPT ![r] = f.req]
    /\ store' = f.store
    /\ origin' = OriginAfter(f.store, cache_key, f.wrote, f.req.path)

\* An answer from the cache stamped with the time of the hit
CachedResponseStamped(got) ==
    [status |-> 200,
     matches |-> got.value.matches,
     total_matches |-> got.value.total_matches,
     cached |-> TRUE,
     generated_at |-> now]

\* The answer built from the payload a cache lookup returned
CachedResponse(got) ==
    [status |-> 200,
     matches |-> got.value.matches,
     total_matches |-> got.value.total_matches,
     cached |-> TRUE,
     generated_at |-> got.value.generated_at]

\* A hit branch that writes the payload back with a new expiry
serve_cached_refreshing(r, q, got) ==
    /\ req' = [req EXCEPT ![r] = [q EXCEPT !.pc = "done",
                                           !.response = CachedResponse(got)]]
    /\ store' = StorePut(store, q.cache_key,
                         [value |-> json_dumps(got.value),
                          expires |-> now + TtlHours])
    /\ origin' = origin

\* get_coach_matches' `if cached_results:` branch: the request in slot r,
\* whose lookup returned got, is answered from it
serve_cached(r, q, got) ==
    /\ req' = [req EXCEPT ![r] = [q EXCEPT !.pc = "done",
                                           !.response = CachedResponse(got)]]
    /\ UNCHANGED <<store, origin>>

\* get_coach_matches up to its first await: the role, profile and quiz checks,
\* the cache lookup, and find_matches up to the first candidate.
MatchRequest(r, u, limit, use_cache, get_fault, set_fault) ==
    /\ req[r].pc \in {"idle", "done"}
    /\ started < RequestBudget
    /\ started' = started + 1
    /\ LET profile == profiles[u]
           q0 == [IdleRequest EXCEPT !.op = "match", !.user = u,
                      !.overlaps = \E other \in (DOMAIN req) \ {r} :
                                      req[other].pc = "scoring"]
           fail(code) == [q0 EXCEPT !.pc = "done", !.response = ErrorResponse(code)]
       IN  IF profile.role # "client"
           THEN /\ req' = [req EXCEPT ![r] = fail(403)]
                /\ UNCHANGED <<store, origin>>
           ELSE IF ~profile.has_profile
           THEN /\ req' = [req EXCEPT ![r] = fail(404)]
                /\ UNCHANGED <<store, origin>>
           ELSE IF ~validate_quiz_data(profile.quiz_data)
           THEN /\ req' = [req EXCEPT ![r] = fail(400)]
                /\ UNCHANGED <<store, origin>>
           ELSE
             LET cache_key == generate_cache_key(u, StoredItems(profile.quiz_data))
                 got == cache_get(is_available, store, cache_key, get_fault)
                 lookup == IF ~use_cache THEN "skipped"
                           ELSE IF ~is_available THEN "unavailable"
                           ELSE IF get_fault THEN "error"
                           ELSE IF got.found THEN "hit"
                           ELSE IF cache_key \in DOMAIN store THEN "undecodable"
                           ELSE "miss"
                 q1 == [q0 EXCEPT !.limit = limit, !.use_cache = use_cache,
                                  !.cache_key = cache_key, !.lookup = lookup]
             IN  IF use_cache /\ got.raised
                 THEN /\ req' = [req EXCEPT ![r] = [q1 EXCEPT !.pc = "done",
                                     !.response = ErrorResponse(500)]]
                      /\ UNCHANGED <<store, origin>>
                 ELSE IF use_cache /\ got.found
                 THEN serve_cached(r, q1, got)
                 ELSE
                   LET client_data == normalize_client_data(profile)
                       coaches == get_active_coaches(coach_db, CandidateLimit)
                       q2 == [q1 EXCEPT !.client_data = client_data,
                                        !.coaches = coaches]
                   IN  IF coaches = <<>>
                       THEN end_request(r, cache_key,
                                FinishFresh(q2, <<>>, "empty", FALSE, store, now,
                                            set_fault))
                       ELSE /\ req' = [req EXCEPT ![r] =
                                          [q2 EXCEPT !.pc = "scoring", !.idx = 1]]
                            /\ UNCHANGED <<store, origin>>
    /\ UNCHANGED <<scoreVars, has_client, profiles, coach_db, is_available, now>>

\* What find_matches does with the outcome c of scoring `coach`, the candidate
\* at idx of request q: drop it, append its entry, or leave the loop for the
\* fallback; and, when that ends the request, everything the handler does
\* after it.
after_candidate(r, q, coach, c, set_fault) ==
    LET q2 == IF c.kind = "timeout"
              THEN [q EXCEPT !.elapsed = @ + c.time, !.calls = @ + c.calls,
                             !.kinds = @ \cup c.kinds,
                             !.dropped = @ \cup {coach.id}, !.idx = @ + 1]
              ELSE IF c.kind = "scored"
              THEN [q EXCEPT !.elapsed = @ + c.time, !.calls = @ + c.calls,
                             !.kinds = @ \cup c.kinds,
                             !.matches = Append(@, MatchEntry(coach, c.score)),
                             !.idx = @ + 1]
              ELSE [q EXCEPT !.elapsed = @ + c.time, !.calls = @ + c.calls,
                             !.kinds = @ \cup c.kinds]
    IN  IF c.kind # "raised" /\ q.idx < Len(q.coaches)
        THEN /\ req' = [req EXCEPT ![r] = q2]
             /\ UNCHANGED <<store, origin>>
        ELSE end_request(r, q.cache_key,
                 IF c.kind = "raised"
                 THEN FinishFresh(q2, get_fallback_matches(coach_db, q.limit),
                                  "fallback", TRUE, store, now, set_fault)
                 ELSE FinishFresh(q2, RankMatches(q2.matches, q.limit),
                                  "ranked", FALSE, store, now, set_fault))

\* find_matches' loop body for the candidate at idx, and, when that candidate
\* ends the request (it was the last one, or its scoring raised), everything
\* the handler does after it: no await separates them.
ScoreCandidate(r, o1, o2, set_fault) ==
    /\ req[r].pc = "scoring"
    /\ after_candidate(r, req[r], req[r].coaches[req[r].idx],
           score_with_deadline(has_client, req[r].client_data,
               normalize_coach_data(req[r].coaches[req[r].idx]), o1, o2),
           set_fault)
    /\ UNCHANGED <<scoreVars, has_client, profiles, coach_db, is_available, now,
                   started>>

\* GET /match/cache/info
GetMatchCacheInfo(r, u, exists_fault, ttl_fault) ==
    /\ req[r].pc \in {"idle", "done"}
    /\ started < RequestBudget
    /\ started' = started + 1
    /\ LET profile == profiles[u]
           cache_key == generate_cache_key(u, StoredItems(profile.quiz_data))
           e == cache_exists(is_available, store, cache_key, exists_fault)
           t == IF e.value
                THEN cache_get_ttl(is_available, store, now, cache_key, ttl_fault)
                ELSE [raised |-> FALSE, none |-> TRUE, ttl |-> 0]
           q0 == [IdleRequest EXCEPT !.pc = "done", !.op = "info", !.user = u]
       IN  req' = [req EXCEPT ![r] =
             IF profile.role # "client"
             THEN [q0 EXCEPT !.response = ErrorResponse(403)]
             ELSE IF ~profile.has_profile
             THEN [q0 EXCEPT !.response = ErrorResponse(404)]
             ELSE IF e.raised \/ t.raised
             THEN [q0 EXCEPT !.response = ErrorResponse(500),
                             !.cache_key = cache_key,
                             !.info.fault = exists_fault \/ ttl_fault]
             ELSE [q0 EXCEPT !.response = ErrorResponse(200),
                             !.cache_key = cache_key,
                             !.info = [exists |-> e.value, ttl_none |-> t.none,
                                       ttl |-> t.ttl, deleted |-> 0,
                                       fault |-> is_available /\
                                           (exists_fault \/ (e.value /\ ttl_fault))]]]
    /\ UNCHANGED <<scoreVars, has_client, profiles, coach_db, is_available, store,
                   origin, now>>

\* DELETE /match/cache
ClearMatchCache(r, u, fault) ==
    /\ req[r].pc \in {"idle", "done"}
    /\ started < RequestBudget
    /\ started' = started + 1
    /\ LET profile == profiles[u]
           d == invalidate_client_match_cache(is_available, store, u, fault)
           q0 == [IdleRequest EXCEPT !.pc = "done", !.op = "clear", !.user = u]
       IN  IF profile.role # "client"
           THEN /\ req' = [req EXCEPT ![r] = [q0 EXCEPT !.response = ErrorResponse(403)]]
                /\ UNCHANGED <<store, origin>>
           ELSE /\ req' = [req EXCEPT ![r] =
                     IF d.raised
                     THEN [q0 EXCEPT !.response = ErrorResponse(500),
                                     !.info.fault = fault]
                     ELSE [q0 EXCEPT !.response = ErrorResponse(204),
                                     !.info.deleted = d.deleted,
                                     !.info.fault = is_available /\ fault]]
                /\ store' = d.store
                /\ origin' = OriginAfter(d.store, NoKey, FALSE, "none")
    /\ UNCHANGED <<scoreVars, has_client, profiles, coach_db, is_available, now>>

\* The clock advances by hours, between requests (a request's scoring lasts
\* seconds); the store drops the keys whose expiry has come
Tick ==
    /\ now + ClockStep <= MaxClock
    /\ \A r \in DOMAIN req : req[r].pc # "scoring"
    /\ now' = now + ClockStep
    /\ LET st == StoreDrop(store, {k \in DOMAIN store : store[k].expires <= now'})
       IN  /\ store' = st
           /\ origin' = OriginAfter(st, NoKey, FALSE, "none")
    /\ UNCHANGED <<scoreVars, has_client, profiles, coach_db, is_available, req,
                   started>>

\* Whether scoring the candidate at idx issues embedding calls
NeedsEmbedding(q) ==
    /\ has_client
    /\ q.client_data.goals # <<>> \/ q.client_data.challenges # <<>>
    /\ q.coaches[q.idx].expertise # <<>>

Faults == IF is_available THEN BOOLEAN ELSE {FALSE}

Next ==
    \/ \E r \in DOMAIN req, u \in Users, limit \in 1..MaxLimit :
         \E use_cache \in BOOLEAN :
           \E get_fault \in (IF use_cache THEN Faults ELSE {FALSE}),
              set_fault \in (IF get_active_coaches(coach_db, CandidateLimit) = <<>>
                             THEN Faults ELSE {FALSE}) :
             MatchRequest(r, u, limit, use_cache, get_fault, set_fault)
    \/ \E r \in DOMAIN req :
         /\ req[r].pc = "scoring"
         /\ \E o1 \in (IF NeedsEmbedding(req[r]) THEN ProviderOutcomes
                       ELSE {NoOutcome}) :
              \E o2 \in (IF o1.kind = "ok" THEN ProviderOutcomes ELSE {NoOutcome}),
                 set_fault \in Faults :
                ScoreCandidate(r, o1, o2, set_fault)
    \/ \E r \in DOMAIN req, u \in Users : \E exists_fault, ttl_fault \in Faults :
         GetMatchCacheInfo(r, u, exists_fault, ttl_fault)
    \/ \E r \in DOMAIN req, u \in Users : \E fault \in Faults :
         ClearMatchCache(r, u, fault)
    \/ Tick

Spec == Init /\ [][Next]_vars

\* ------------------------------------------------------------------------
\* Specification SpecProfile: the profile router's writes next to POST /match
\* ------------------------------------------------------------------------

\* CoachProfile.validate_hourly_rate, an unset rate being 0
validate_hourly_rate(coach) == coach.hourly_rate # 0 /\ coach.hourly_rate \in 25..500

\* The hourly rates a coach update sets (CoachProfileUpdate accepts 25..500)
UpdatedRates == {120}

\* The schemas a PUT /profile body may be parsed as
BodyKinds == {"client", "coach"}

InitProfile ==
    /\ sc_pc = "idle"
    /\ sc_args = [has_client |-> TRUE, client_data |-> NoClientData,
                  coach_data |-> normalize_coach_data(CoachPool[4])]
    /\ sc_emb = <<"none", "none">>
    /\ sc_result = NoScore
    /\ has_client = FALSE
    /\ is_available = TRUE
    /\ store \in InitialStores
    /\ profiles = InitialProfiles
    /\ coach_db = [c \in 1..2 |-> CoachPool[c]]
    /\ origin = [k \in DOMAIN store |-> "foreign"]
    /\ now = 0
    /\ req = [r \in Slots |-> IdleRequest]
    /\ started = 0

\* A profile request in slot r ends with answer q, the store being st
end_profile_request(r, q, st) ==
    /\ req' = [req EXCEPT ![r] = q]
    /\ store' = st
    /\ origin' = OriginAfter(st, NoKey, FALSE, "none")

\* PUT /profile by a user whose role is client.  body is the schema the
\* request body was parsed as, with_quiz whether it carries quiz_data.  The
\* update loop calls value.model_dump() on the quiz, which model_dump has
\* already turned into a dict: AttributeError, answered with 500, after the
\* profile of a user without one has been created and committed.
UpdateClientProfile(r, u, body, with_quiz, fault) ==
    /\ req[r].pc \in {"idle", "done"}
    /\ started < RequestBudget
    /\ started' = started + 1
    /\ profiles[u].role = "client"
    /\ LET profile == profiles[u]
           q0 == [IdleRequest EXCEPT !.pc = "done", !.op = "update_client",
                                     !.user = u]
           d == invalidate_client_match_cache(is_available, store, u, fault)
       IN  IF body # "client"
           THEN /\ end_profile_request(r, [q0 EXCEPT !.response = ErrorResponse(400)],
                                       store)
                /\ UNCHANGED profiles
           ELSE IF ~profile.has_profile /\ ~with_quiz
           THEN /\ end_profile_request(r, [q0 EXCEPT !.response = ErrorResponse(400)],
                                       store)
                /\ UNCHANGED profiles
           ELSE IF with_quiz
           THEN /\ end_profile_request(r, [q0 EXCEPT !.response = ErrorResponse(500)],
                                       store)
                /\ profiles' = IF profile.has_profile THEN profiles
                               ELSE [profiles EXCEPT ![u].has_profile = TRUE,
                                                     ![u].quiz_data = QuizComplete]
           ELSE /\ end_profile_request(r,
                       [q0 EXCEPT !.response = ErrorResponse(200),
                                  !.info.deleted = d.deleted,
                                  !.info.fault = fault],
                       d.store)
                /\ profiles' = [profiles EXCEPT ![u].timezone = "CET"]
    /\ UNCHANGED <<scoreVars, has_client, coach_db, is_available, now>>

\* PUT /profile by a coach (endpoint "profile") and PUT /coaches/{coach_id} by
\* the coach (endpoint "coaches"): the row of coach c gets a new hourly_rate
UpdateCoachProfile(r, c, endpoint, body, new_rate, fault, list_fault) ==
    /\ req[r].pc \in {"idle", "done"}
    /\ started < RequestBudget
    /\ started' = started + 1
    /\ LET profile == [coach_db[c] EXCEPT !.hourly_rate = new_rate]
           q0 == [IdleRequest EXCEPT !.pc = "done", !.op = "update_coach",
                                     !.coaches = <<profile>>]
           d == invalidate_all_match_cache(is_available, store, fault)
           st == IF endpoint = "coaches"
                 THEN invalidate_endpoint_cache(is_available, d.store, list_fault).store
                 ELSE d.store
       IN  IF endpoint = "profile" /\ body # "coach"
           THEN /\ end_profile_request(r, [q0 EXCEPT !.response = ErrorResponse(400)],
                                       store)
                /\ UNCHANGED coach_db
           ELSE IF profile.hourly_rate # 0 /\ ~validate_hourly_rate(profile)
           THEN /\ end_profile_request(r, [q0 EXCEPT !.response = ErrorResponse(400)],
                                       store)
                /\ UNCHANGED coach_db
           ELSE /\ end_profile_request(r,
                       [q0 EXCEPT !.response = ErrorResponse(200),
                                  !.info.deleted = d.deleted,
                                  !.info.fault = fault],
                       st)
                /\ coach_db' = [coach_db EXCEPT ![c] = profile]
    /\ UNCHANGED <<scoreVars, has_client, profiles, is_available, now>>

\* POST /profile/photo by coach c: the upload succeeds or is rejected; the row
\* gets the new photo_url; no cache call
UploadCoachPhoto(r, c, upload_ok) ==
    /\ req[r].pc \in {"idle", "done"}
    /\ started < RequestBudget
    /\ started' = started + 1
    /\ LET profile == [coach_db[c] EXCEPT !.photo_url = "photo_b"]
           q0 == [IdleRequest EXCEPT !.pc = "done", !.op = "coach_photo",
                                     !.coaches = <<profile>>]
       IN  IF ~upload_ok
           THEN /\ req' = [req EXCEPT ![r] = [q0 EXCEPT !.response = ErrorResponse(400)]]
                /\ UNCHANGED coach_db
           ELSE /\ req' = [req EXCEPT ![r] = [q0 EXCEPT !.response = ErrorResponse(200)]]
                /\ coach_db' = [coach_db EXCEPT ![c] = profile]
    /\ UNCHANGED <<scoreVars, has_client, profiles, is_available, store, origin,
                   now>>

\* DELETE /profile by coach c: the user row goes and the cascade takes the
\* coach_profiles row with it; no cache call
DeleteCoachAccount(r, c) ==
    /\ req[r].pc \in {"idle", "done"}
    /\ started < RequestBudget
    /\ started' = started + 1
    /\ req' = [req EXCEPT ![r] =
                  [IdleRequest EXCEPT !.pc = "done", !.op = "delete_coach",
                                      !.coaches = <<coach_db[c]>>,
                                      !.response = ErrorResponse(200)]]
    /\ coach_db' = [k \in (DOMAIN coach_db) \ {c} |-> coach_db[k]]
    /\ UNCHANGED <<scoreVars, has_client, profiles, is_available, store, origin,
                   now>>

NextProfile ==
    \/ \E r \in DOMAIN req, u \in Users, limit \in 1..MaxLimit :
         \E use_cache \in BOOLEAN :
           \E get_fault \in (IF use_cache THEN Faults ELSE {FALSE}),
              set_fault \in (IF get_active_coaches(coach_db, CandidateLimit) = <<>>
                             THEN Faults ELSE {FALSE}) :
             MatchRequest(r, u, limit, use_cache, get_fault, set_fault)
    \/ \E r \in DOMAIN req :
         /\ req[r].pc = "scoring"
         /\ \E set_fault \in Faults :
              ScoreCandidate(r, NoOutcome, NoOutcome, set_fault)
    \/ \E r \in DOMAIN req, u \in Users, body \in BodyKinds :
         \E with_quiz \in BOOLEAN, fault \in Faults :
           UpdateClientProfile(r, u, body, with_quiz, fault)
    \/ \E r \in DOMAIN req, c \in DOMAIN coach_db :
         \E endpoint \in {"profile", "coaches"}, body \in BodyKinds :
           \E new_rate \in UpdatedRates, fault \in Faults, list_fault \in Faults :
             UpdateCoachProfile(r, c, endpoint, body, new_rate, fault, list_fault)
    \/ \E r \in DOMAIN req, c \in DOMAIN coach_db, upload_ok \in BOOLEAN :
         UploadCoachPhoto(r, c, upload_ok)
    \/ \E r \in DOMAIN req, c \in DOMAIN coach_db :
         DeleteCoachAccount(r, c)

SpecProfile == InitProfile /\ [][NextProfile]_vars

\* ------------------------------------------------------------------------
\* Specification SpecPair: two requests in flight on one event loop
\* ------------------------------------------------------------------------
\* A handler runs until it awaits; with the provider configured every
\* candidate's scoring awaits the embedding calls, so another request's steps
\* may come between the candidates of one request.  The store answers every
\* call.

PairSlots == {1, 2}

InitPair ==
    /\ sc_pc = "idle"
    /\ sc_args = [has_client |-> TRUE, client_data |-> NoClientData,
                  coach_data |-> normalize_coach_data(CoachPool[4])]
    /\ sc_emb = <<"none", "none">>
    /\ sc_result = NoScore
    /\ has_client = TRUE
    /\ is_available = TRUE
    /\ store = EmptyStore
    /\ profiles = InitialProfiles
    /\ coach_db = [c \in 1..2 |-> CoachPool[c]]
    /\ origin = EmptyStore
    /\ now = 0
    /\ req = [r \in PairSlots |-> IdleRequest]
    /\ started = 0

\* The client whose requests the pair specification follows
PairClients == {"alice"}

NextPair ==
    \/ \E r \in DOMAIN req, u \in PairClients, limit \in 1..MaxLimit :
         \E use_cache \in BOOLEAN :
           MatchRequest(r, u, limit, use_cache, FALSE, FALSE)
    \/ \E r \in DOMAIN req :
         /\ req[r].pc = "scoring"
         /\ \E o1 \in (IF NeedsEmbedding(req[r]) THEN ProviderOutcomes
                       ELSE {NoOutcome}) :
              \E o2 \in (IF o1.kind = "ok" THEN ProviderOutcomes ELSE {NoOutcome}) :
                ScoreCandidate(r, o1, o2, FALSE)

SpecPair == InitPair /\ [][NextPair]_vars

\* ------------------------------------------------------------------------
\* Specification SpecQuiz: POST /match of a client whose quiz lacks a factor
\* ------------------------------------------------------------------------
\* carol's client_profiles row holds a quiz that lacks one of the required
\* factors; alice's is complete.  The provider is configured and the store
\* answers every call.

QuizClients == {"alice", "carol"}

InitQuiz ==
    /\ sc_pc = "idle"
    /\ sc_args = [has_client |-> TRUE, client_data |-> NoClientData,
                  coach_data |-> normalize_coach_data(CoachPool[4])]
    /\ sc_emb = <<"none", "none">>
    /\ sc_result = NoScore
    /\ has_client = TRUE
    /\ is_available = TRUE
    /\ store = EmptyStore
    /\ \E quiz \in LackingQuizzes :
         profiles = [InitialProfiles EXCEPT !["carol"].quiz_data = quiz]
    /\ coach_db = [c \in 1..2 |-> CoachPool[c]]
    /\ origin = EmptyStore
    /\ now = 0
    /\ req = [r \in Slots |-> IdleRequest]
    /\ started = 0

NextQuiz ==
    \/ \E r \in DOMAIN req, u \in QuizClients, limit \in 1..MaxLimit :
         \E use_cache \in BOOLEAN :
           MatchRequest(r, u, limit, use_cache, FALSE, FALSE)
    \/ \E r \in DOMAIN req :
         /\ req[r].pc = "scoring"
         /\ \E o1 \in (IF NeedsEmbedding(req[r]) THEN ProviderOutcomes
                       ELSE {NoOutcome}) :
              \E o2 \in (IF o1.kind = "ok" THEN ProviderOutcomes ELSE {NoOutcome}) :
                ScoreCandidate(r, o1, o2, FALSE)

SpecQuiz == InitQuiz /\ [][NextQuiz]_vars

\* ------------------------------------------------------------------------
\* Specification SpecFallback: find_matches' fallback on tables of coaches
\* ------------------------------------------------------------------------
\* The tables hold verified and unverified coaches and one whose user account
\* is not active.  alice's scoring fails when an embedding call raises, bob's
\* in the budget scorer.

\* A verified coach whose user account has been deactivated
InactiveCoach ==
    [CoachPool[3] EXCEPT !.id = 6, !.rating = 495, !.user_active = FALSE]

FallbackPool ==
    [c \in {1, 2, 3, 5, 6} |-> IF c = 6 THEN InactiveCoach ELSE CoachPool[c]]

FallbackTables ==
    {[c \in ids |-> FallbackPool[c]] :
        ids \in {x \in SUBSET (DOMAIN FallbackPool) : Cardinality(x) <= MaxCoaches}}

FallbackClients == {"alice", "bob"}

\* The provider answers, or the call raises an exception that is not caught
FallbackOutcomes == {o \in ProviderOutcomes : o.kind \in {"ok", "other_error"}}

InitFallback ==
    /\ sc_pc = "idle"
    /\ sc_args = [has_client |-> TRUE, client_data |-> NoClientData,
                  coach_data |-> normalize_coach_data(CoachPool[4])]
    /\ sc_emb = <<"none", "none">>
    /\ sc_result = NoScore
    /\ has_client = TRUE
    /\ is_available = TRUE
    /\ store = EmptyStore
    /\ profiles = InitialProfiles
    /\ coach_db \in FallbackTables
    /\ origin = EmptyStore
    /\ now = 0
    /\ req = [r \in Slots |-> IdleRequest]
    /\ started = 0

NextFallback ==
    \/ \E r \in DOMAIN req, u \in FallbackClients, limit \in 1..MaxLimit :
         \E use_cache \in BOOLEAN :
           MatchRequest(r, u, limit, use_cache, FALSE, FALSE)
    \/ \E r \in DOMAIN req :
         /\ req[r].pc = "scoring"
         /\ \E o1 \in (IF NeedsEmbedding(req[r]) THEN FallbackOutcomes
                       ELSE {NoOutcome}) :
              \E o2 \in (IF o1.kind = "ok" THEN FallbackOutcomes ELSE {NoOutcome}) :
                ScoreCandidate(r, o1, o2, FALSE)

SpecFallback == InitFallback /\ [][NextFallback]_vars

\* ------------------------------------------------------------------------
\* Specification SpecCalls: the embedding calls of one match request
\* ------------------------------------------------------------------------
\* One request of alice over two candidates; each embedding call is answered
\* with a vector or an empty one, fails with a provider error, times out, or
\* raises an exception that is not caught.

CallOutcomes ==
    {o \in EmbOutcomes : o.kind = "ok" => o.vec \in {<<3, 4>>, <<>>}}

NextCalls ==
    \/ \E r \in DOMAIN req, u \in PairClients, limit \in 1..MaxLimit :
         \E use_cache \in BOOLEAN :
           MatchRequest(r, u, limit, use_cache, FALSE, FALSE)
    \/ \E r \in DOMAIN req :
         /\ req[r].pc = "scoring"
         /\ \E o1 \in (IF NeedsEmbedding(req[r]) THEN CallOutcomes
                       ELSE {NoOutcome}) :
              \E o2 \in (IF o1.kind \in {"ok", "api_error"} THEN CallOutcomes
                         ELSE {NoOutcome}) :
                ScoreCandidate(r, o1, o2, FALSE)

InitCalls ==
    /\ sc_pc = "idle"
    /\ sc_args = [has_client |-> TRUE, client_data |-> NoClientData,
                  coach_data |-> normalize_coach_data(CoachPool[4])]
    /\ sc_emb = <<"none", "none">>
    /\ sc_result = NoScore
    /\ has_client = TRUE
    /\ is_available = TRUE
    /\ store = EmptyStore
    /\ profiles = InitialProfiles
    /\ coach_db \in {[c \in 1..n |-> CoachPool[c]] : n \in 1..2}
    /\ origin = EmptyStore
    /\ now = 0
    /\ req = [r \in Slots |-> IdleRequest]
    /\ started = 0

SpecCalls == InitCalls /\ [][NextCalls]_vars

\* ------------------------------------------------------------------------
\* Specification SpecRace: a coach update beside a match request in flight
\* ------------------------------------------------------------------------
\* Slot 1 holds a match request of alice, slot 2 a PUT /coaches/{coach_id}
\* that raises the coach's hourly_rate, slot 3 a match request of alice that
\* arrives after the update has returned.  The provider answers every call and
\* the store every command; a match request awaits the provider between its
\* candidates, and the update may run to its end at any of these points.

RaceSlots == {1, 2, 3}

\* The hourly rate the update sets: above alice's budget_range.max
RaceRates == {200}

RaceOutcomes == {o \in ProviderOutcomes : o.kind = "ok"}

InitRace ==
    /\ sc_pc = "idle"
    /\ sc_args = [has_client |-> TRUE, client_data |-> NoClientData,
                  coach_data |-> normalize_coach_data(CoachPool[4])]
    /\ sc_emb = <<"none", "none">>
    /\ sc_result = NoScore
    /\ has_client = TRUE
    /\ is_available = TRUE
    /\ store = EmptyStore
    /\ profiles = InitialProfiles
    /\ coach_db = [c \in 1..2 |-> CoachPool[c]]
    /\ origin = EmptyStore
    /\ now = 0
    /\ req = [r \in RaceSlots |-> IdleRequest]
    /\ started = 0

NextRace ==
    \/ \E limit \in 1..MaxLimit, use_cache \in BOOLEAN :
         /\ req[1].pc = "idle"
         /\ MatchRequest(1, "alice", limit, use_cache, FALSE, FALSE)
    \/ \E r \in DOMAIN req :
         /\ req[r].pc = "scoring"
         /\ \E o1 \in RaceOutcomes, o2 \in RaceOutcomes :
              ScoreCandidate(r, o1, o2, FALSE)
    \/ \E c \in DOMAIN coach_db, new_rate \in RaceRates :
         /\ req[2].pc = "idle"
         /\ UpdateCoachProfile(2, c, "coaches", "coach", new_rate, FALSE, FALSE)
    \/ \E limit \in 1..MaxLimit, use_cache \in BOOLEAN :
         /\ req[2].pc = "done"
         /\ req[3].pc = "idle"
         /\ MatchRequest(3, "alice", limit, use_cache, FALSE, FALSE)

SpecRace == InitRace /\ [][NextRace]_vars

\* ------------------------------------------------------------------------
\* Specification SpecHit: match requests served from the cache, over time
\* ------------------------------------------------------------------------
\* alice's requests with the provider answering every call; the store is
\* reachable or not, may hold the entries another writer left and may raise
\* on a read; the clock advances between requests.

InitHit ==
    /\ sc_pc = "idle"
    /\ sc_args = [has_client |-> TRUE, client_data |-> NoClientData,
                  coach_data |-> normalize_coach_data(CoachPool[4])]
    /\ sc_emb = <<"none", "none">>
    /\ sc_result = NoScore
    /\ has_client = TRUE
    /\ is_available \in BOOLEAN
    /\ store \in InitialStores
    /\ profiles = InitialProfiles
    /\ coach_db = [c \in 1..2 |-> CoachPool[c]]
    /\ origin = [k \in DOMAIN store |-> "foreign"]
    /\ now = 0
    /\ req = [r \in PairSlots |-> IdleRequest]
    /\ started = 0

NextHit ==
    \/ \E r \in DOMAIN req, u \in PairClients, limit \in 1..MaxLimit :
         \E use_cache \in BOOLEAN :
           \E get_fault \in (IF use_cache THEN Faults ELSE {FALSE}) :
             MatchRequest(r, u, limit, use_cache, get_fault, FALSE)
    \/ \E r \in DOMAIN req :
         /\ req[r].pc = "scoring"
         /\ \E o1 \in RaceOutcomes, o2 \in RaceOutcomes :
              ScoreCandidate(r, o1, o2, FALSE)
    \/ Tick

SpecHit == InitHit /\ [][NextHit]_vars

\* ------------------------------------------------------------------------
\* Properties
\* ------------------------------------------------------------------------

\* A finished POST /match request
MatchDone(q) == q.op = "match" /\ q.pc = "done"

\* A finished POST /match request that went through find_matches
RanFindMatches(q) == MatchDone(q) /\ q.path \in {"empty", "ranked", "fallback"}

\* No rule-based scorer can raise for any candidate of the request
ScorersCannotRaise(q) ==
    \A i \in 1..Len(q.coaches) :
        ~calculate_budget_score(q.client_data.budget_max,
                                q.coaches[i].hourly_rate).raised

\* Some candidate's scoring was cut by its deadline
DeadlineExceeded(q) == "timeout" \in q.kinds \/ "cancelled" \in q.kinds

\* a outranks b under the key (match_score, rating), largest first
Outranks(a, b) ==
    \/ a.match_score > b.match_score
    \/ (a.match_score = b.match_score /\ a.rating > b.rating)

ScenarioA(args) ==
    /\ args.client_data.languages = <<"English", "Spanish">>
    /\ args.client_data.countries = <<"Spain">>
    /\ args.client_data.budget_max = 150
    /\ args.coach_data.languages = <<"Spanish">>
    /\ args.coach_data.countries = <<"Spain">>
    /\ args.coach_data.hourly_rate = 100
    /\ ~args.coach_data.availability

\* C1: whatever the feature sets and whatever the embedding provider answers,
\* the match_score calculate_match_score returns lies in [0.0, 100.0].
C1_ScoreInRange ==
    sc_pc = "returned" =>
        /\ RatLeq(Zero, sc_result.total)
        /\ RatLeq(sc_result.total, Hundred)

\* A returned match_score below zero
C1_NegativeScore ==
    /\ sc_pc = "returned"
    /\ sc_emb = <<"ok", "ok">>
    /\ RatLt(sc_result.total, Zero)

\* C2: the returned match_score is exactly
\* min(100, 100 x (0.25 language + 0.20 country + 0.30 semantic + 0.15 budget
\* + 0.10 availability)); the weights sum to 1; and for client languages
\* {English, Spanish}, countries {Spain}, budget_max 150 and a coach with
\* languages {Spanish}, countries {Spain}, hourly_rate 100, no availability
\* data and semantic score 1.0 it is 82.5.
C2_WeightedSum ==
    sc_pc = "returned" =>
        LET s == sc_result
            sum == RatAdd(RatAdd(RatAdd(RatAdd(
                       RatMul(<<1, 4>>, s.language_score),
                       RatMul(<<1, 5>>, s.country_score)),
                       RatMul(<<3, 10>>, s.goal_score)),
                       RatMul(<<3, 20>>, s.budget_score)),
                       RatMul(<<1, 10>>, s.availability_score))
        IN  /\ s.total = RatMin(Hundred, RatMul(Hundred, sum))
            /\ RatAdd(RatAdd(RatAdd(RatAdd(<<1, 4>>, <<1, 5>>), <<3, 10>>),
                             <<3, 20>>), <<1, 10>>) = One
            /\ (ScenarioA(sc_args) /\ s.goal_score = One) => s.total = <<165, 2>>

\* The 82.5 scenario has been scored
C2_ScenarioScored ==
    /\ sc_pc = "returned"
    /\ ScenarioA(sc_args)
    /\ sc_result.goal_score = One
    /\ sc_result.language_score = Half
    /\ sc_result.total = <<165, 2>>

\* C3: on the normal path the list find_matches returns has length
\* min(limit, number of scored candidates), is in descending order of
\* match_score with ties in descending order of rating, is made of scored
\* candidates, and leaves out no scored candidate that outranks one it holds;
\* limit is within 1..50.
C3_RankedTopN ==
    \A r \in DOMAIN req :
        LET q == req[r]
            found == q.found
        IN  (MatchDone(q) /\ q.path = "ranked") =>
              /\ q.limit \in 1..50
              /\ Len(found) = Min(q.limit, Len(q.matches))
              /\ \A i, j \in 1..Len(found) : i < j => ~Outranks(found[j], found[i])
              /\ \A i \in 1..Len(found) : \E k \in 1..Len(q.matches) : q.matches[k] = found[i]
              /\ \A i, j \in 1..Len(found) : i # j => found[i].coach_id # found[j].coach_id
              /\ \A k \in 1..Len(q.matches) :
                    (\A i \in 1..Len(found) : found[i] # q.matches[k]) =>
                        \A i \in 1..Len(found) : ~Outranks(q.matches[k], found[i])

\* More candidates were scored than the limit, and sorting changed their order
C3_TruncatedAndReordered ==
    \E r \in DOMAIN req :
        LET q == req[r]
        IN  /\ MatchDone(q) /\ q.path = "ranked"
            /\ Len(q.matches) > q.limit
            /\ Len(q.found) >= 2
            /\ q.found # SubSeq(q.matches, 1, q.limit)

\* C4: the store never holds an entry written from a fallback result, so no
\* later request is served a fallback list with cached=true.
C4_FallbackNeverCached ==
    \A k \in DOMAIN origin : origin[k] # "fallback"

\* A later request was answered from the cache with a stored fallback list
C4_CachedFallbackServed ==
    \E r \in DOMAIN req :
        LET q == req[r]
        IN  /\ MatchDone(q) /\ q.lookup = "hit"
            /\ q.response.cached
            /\ q.response.matches # <<>>
            /\ \A i \in 1..Len(q.response.matches) :
                  q.response.matches[i].match_score = 0
            /\ q.cache_key \in DOMAIN origin
            /\ origin[q.cache_key] = "fallback"

\* C5: a match request of a client whose profile exists and whose quiz holds
\* every required field is answered with a result, never with an error.
C5_ValidClientAlwaysAnswered ==
    \A r \in DOMAIN req :
        LET q == req[r]
        IN  (/\ MatchDone(q)
             /\ profiles[q.user].role = "client"
             /\ profiles[q.user].has_profile
             /\ validate_quiz_data(profiles[q.user].quiz_data)) =>
                q.response.status = 200

\* C6: a cache write never raises, and the request that attempted it answers
\* its freshly computed matches with cached=false.
C6_SetBestEffort ==
    \A r \in DOMAIN req :
        LET q == req[r]
        IN  (MatchDone(q) /\ q.set_result # "none") =>
              /\ q.set_result \in {"stored", "not_stored"}
              /\ q.response.status = 200
              /\ ~q.response.cached
              /\ q.response.matches = q.found

\* The keys POST /match may use
MatchKeys == {generate_cache_key(u, StoredItems(profiles[u].quiz_data)) : u \in Users}

\* C7: when the store is unreachable (from start-up, or on the call) or holds
\* a value that is not JSON, get returns absent, exists False, get_ttl None and
\* delete_pattern 0, none raises; a match request whose lookup ended this way
\* is not answered from the cache and goes on to find_matches as on a miss; the
\* cache endpoints answer without error.
C7_ReadsFailOpen ==
    /\ \A k \in MatchKeys, fault \in BOOLEAN :
         (~is_available \/ fault) =>
           LET g == cache_get(is_available, store, k, fault)
               e == cache_exists(is_available, store, k, fault)
               t == cache_get_ttl(is_available, store, now, k, fault)
               d == cache_delete_pattern(is_available, store,
                        [prefix |-> "match", client_id |-> k.client_id], fault)
           IN  /\ ~g.raised /\ ~g.found
               /\ ~e.raised /\ ~e.value
               /\ ~t.raised /\ t.none
               /\ ~d.raised /\ d.deleted = 0 /\ d.store = store
    /\ \A k \in DOMAIN store :
         store[k].value = Undecodable =>
           LET g == cache_get(is_available, store, k, FALSE)
           IN  ~g.raised /\ ~g.found
    /\ \A r \in DOMAIN req :
         LET q == req[r]
         IN  /\ (q.op = "match" /\ q.lookup \in {"unavailable", "error", "undecodable"}) =>
                  /\ ~q.response.cached
                  /\ q.pc = "scoring" \/ RanFindMatches(q)
                  /\ q.client_data = normalize_client_data(profiles[q.user])
                  /\ q.coaches = get_active_coaches(coach_db, CandidateLimit)
             /\ (q.op = "info" /\ q.info.fault) =>
                  /\ q.response.status = 200
                  /\ q.info.ttl_none
             /\ (q.op = "clear" /\ q.info.fault) =>
                  /\ q.response.status = 204
                  /\ q.info.deleted = 0

\* A lookup that found a value that is not JSON, and the fresh answer after it
C7_UndecodableTreatedAsMiss ==
    \E r \in DOMAIN req :
        LET q == req[r]
        IN  /\ MatchDone(q) /\ q.lookup = "undecodable"
            /\ q.path = "ranked"
            /\ q.found # <<>>
            /\ q.response.status = 200
            /\ ~q.response.cached

\* C8: when every embedding call of a request times out and no rule-based
\* scorer raises, every candidate is scored and kept in the ranked result: none
\* is dropped and the fallback is not used.
C8_TimeoutsScoredLexically ==
    \A r \in DOMAIN req :
        LET q == req[r]
        IN  (RanFindMatches(q) /\ q.kinds = {"timeout"} /\ ScorersCannotRaise(q)) =>
              /\ q.path = "ranked"
              /\ q.dropped = {}
              /\ Len(q.matches) = Len(q.coaches)

\* C9: when the scoring of some candidates exceeds the per-candidate deadline
\* and nothing raises, exactly those candidates are excluded: every other
\* candidate is scored, the result is the ranked list of the others, and the
\* fallback is not used.
C9_OnlyLateCandidatesExcluded ==
    \A r \in DOMAIN req :
        LET q == req[r]
            ids == {q.coaches[i].id : i \in 1..Len(q.coaches)}
            scored == {q.matches[i].coach_id : i \in 1..Len(q.matches)}
            returned == {q.found[i].coach_id : i \in 1..Len(q.found)}
        IN  (/\ RanFindMatches(q)
             /\ DeadlineExceeded(q)
             /\ "other_error" \notin q.kinds
             /\ ScorersCannotRaise(q)) =>
              /\ q.path = "ranked"
              /\ q.dropped # {}
              /\ q.dropped \subseteq ids
              /\ scored = ids \ q.dropped
              /\ Len(q.matches) = Len(q.coaches) - Cardinality(q.dropped)
              /\ returned \subseteq scored
              /\ Len(q.found) = Min(q.limit, Len(q.matches))
              /\ \A i, j \in 1..Len(q.found) : i < j => ~Outranks(q.found[j], q.found[i])

\* One candidate was dropped at its deadline and the others were returned
C9_OneDroppedOthersRanked ==
    \E r \in DOMAIN req :
        LET q == req[r]
        IN  /\ MatchDone(q) /\ q.path = "ranked"
            /\ Cardinality(q.dropped) = 1
            /\ Len(q.matches) >= 2
            /\ Len(q.found) >= 2
            /\ q.response.status = 200

\* C10: a whole-request deadline bounds the scoring: the time a request with
\* several candidates spends scoring stays below (number of candidates x
\* per-candidate timeout) unless it returns the fallback.
C10_ScoringTimeBounded ==
    \A r \in DOMAIN req :
        LET q == req[r]
        IN  (RanFindMatches(q) /\ Len(q.coaches) >= 2) =>
              \/ q.elapsed < Len(q.coaches) * timeout
              \/ q.path = "fallback"

\* The lexical fallback of the semantic scorer, from the texts: the words of
\* the client's goals followed by challenges and of the coach's expertise,
\* lower-cased, |A \cap B| / |A \cup B|
LexicalOverlap(args) ==
    LET client_words == Join(args.client_data.goals \o args.client_data.challenges)
        coach_words == Join(args.coach_data.expertise)
        A == {Lower(client_words[i]) : i \in 1..Len(client_words)}
        B == {Lower(coach_words[i]) : i \in 1..Len(coach_words)}
    IN  IF A \cup B = {} THEN Zero
        ELSE Rat(Cardinality(A \cap B), Cardinality(A \cup B))

\* The semantic scorer has texts to compare
HasTexts(args) ==
    /\ args.client_data.goals # <<>> \/ args.client_data.challenges # <<>>
    /\ args.coach_data.expertise # <<>>

\* An embedding call of the harness failed: provider error, timeout, any other
\* exception (a response without data included), or an empty vector
EmbeddingFailed ==
    \E i \in 1..2 : sc_emb[i] \in {"api_error", "timeout", "other_error", "empty"}

\* C11: for every way an embedding call can fail (provider error, timeout, any
\* other exception, malformed or empty response, no provider configured) the
\* semantic scorer raises nothing to calculate_match_score and returns the
\* lexical fallback score.
C11_SemanticScorerNeverRaises ==
    (/\ sc_pc \in {"returned", "raised"}
     /\ HasTexts(sc_args)
     /\ EmbeddingFailed \/ ~sc_args.has_client
     /\ ~calculate_budget_score(sc_args.client_data.budget_max,
                                sc_args.coach_data.hourly_rate).raised) =>
        /\ sc_pc = "returned"
        /\ sc_result.goal_score = LexicalOverlap(sc_args)

\* An exception other than OpenAIError and TimeoutError left the scorer
C11_UncaughtEmbeddingError ==
    /\ sc_pc = "raised"
    /\ sc_emb = <<"other_error", "none">>
    /\ ~calculate_budget_score(sc_args.client_data.budget_max,
                               sc_args.coach_data.hourly_rate).raised

\* C12: when either embedding call yields no vector, the semantic scorer
\* returns |A \cap B| / |A \cup B| over the lower-cased words of the client
\* text (goals, then challenges) and of the coach's expertise text; it returns
\* 0.0 when the client has neither goals nor challenges or the coach has no
\* expertise.
C12_LexicalFallback ==
    sc_pc = "returned" =>
        /\ ~HasTexts(sc_args) =>
              /\ sc_result.goal_score = Zero
              /\ sc_result.calls = 0
        /\ (/\ HasTexts(sc_args)
            /\ \/ ~sc_args.has_client
               \/ \E i \in 1..2 : sc_emb[i] \in {"api_error", "timeout", "empty"}) =>
              sc_result.goal_score = LexicalOverlap(sc_args)

\* A timed-out first call and an answered second one, scored by word overlap
\* of texts that differ in case
C12_OverlapAfterTimeout ==
    /\ sc_pc = "returned"
    /\ sc_emb = <<"timeout", "ok">>
    /\ sc_args.client_data.goals = << <<"business", "etiquette">> >>
    /\ sc_args.client_data.challenges = << <<"Relocation">> >>
    /\ sc_args.coach_data.expertise = << <<"relocation">>, <<"business">> >>
    /\ sc_result.goal_score = <<2, 3>>

\* What the claim says of one scorer on the lists a and b: s_ab is the score
\* of (a, b), s_ba the score of the swapped arguments
JaccardLaws(s_ab, s_ba, a, b) ==
    LET A == {Lower(a[i]) : i \in 1..Len(a)}
        B == {Lower(b[i]) : i \in 1..Len(b)}
    IN  /\ RatLeq(Zero, s_ab) /\ RatLeq(s_ab, One)
        /\ s_ab = s_ba
        /\ (a = <<>> \/ b = <<>>) => s_ab = Zero
        /\ (a # <<>> /\ A = B) => s_ab = One
        /\ (a # <<>> /\ b # <<>>) =>
              s_ab = Rat(Cardinality(A \cap B), Cardinality(A \cup B))

\* C19: calculate_language_score and calculate_country_score are the Jaccard
\* similarity of the two lower-cased sets: in [0, 1], unchanged when the
\* arguments are swapped, 0.0 when either list is empty, 1.0 when the lists
\* denote the same non-empty set up to letter case, order and duplicates.
C19_JaccardScorers ==
    sc_pc \in {"returned", "raised"} =>
        LET a == sc_args.client_data.languages
            b == sc_args.coach_data.languages
            c == sc_args.client_data.countries
            d == sc_args.coach_data.countries
        IN  /\ sc_result.language_score = calculate_language_score(a, b)
            /\ sc_result.country_score = calculate_country_score(c, d)
            /\ JaccardLaws(sc_result.language_score,
                           calculate_language_score(b, a), a, b)
            /\ JaccardLaws(sc_result.country_score,
                           calculate_country_score(d, c), c, d)

\* Language lists that differ in case, order and duplicates scored 1.0, and
\* disjoint country lists scored 0.0
C19_SameSetScoresOne ==
    /\ sc_pc = "returned"
    /\ sc_args.client_data.languages = <<"English", "Spanish">>
    /\ sc_args.coach_data.languages = <<"spanish", "English", "English">>
    /\ sc_result.language_score = One
    /\ sc_args.client_data.countries = <<"Spain">>
    /\ sc_args.coach_data.countries = <<"France">>
    /\ sc_result.country_score = Zero

\* C20: for every valid budget_max (non-negative, 0 included) and every
\* hourly_rate, calculate_budget_score returns without raising: 0.5 when the
\* rate is unset or non-positive, else 1.0 when rate <= budget_max, 0.5 when
\* the rate exceeds budget_max by at most 20% of budget_max, 0.0 otherwise.
C20_BudgetScoreTotal ==
    sc_pc \in {"returned", "raised"} =>
        LET budget_max == sc_args.client_data.budget_max
            rate == sc_args.coach_data.hourly_rate
            b == calculate_budget_score(budget_max, rate)
        IN  /\ ~b.raised
            /\ b.score = IF rate <= 0 THEN Half
                         ELSE IF rate <= budget_max THEN One
                         ELSE IF 5 * (rate - budget_max) <= budget_max THEN Half
                         ELSE Zero

\* The call raised in the budget scorer: budget_max 0 and a positive rate
C20_ZeroBudgetRaises ==
    /\ sc_pc = "raised"
    /\ sc_emb = <<"none", "none">>
    /\ sc_args.client_data.budget_max = 0
    /\ sc_args.coach_data.hourly_rate = 100

\* The dict a sequence of items denotes: its keys and their values, whatever
\* the insertion order (budget_range's value is a dict too)
RECURSIVE AsDict(_)
AsDict(items) ==
    [f \in {items[i][1] : i \in 1..Len(items)} |->
        LET v == (items[CHOOSE i \in 1..Len(items) : items[i][1] = f])[2]
        IN  IF f = "budget_range" THEN AsDict(v) ELSE v]

\* C16: generate_cache_key is a function of (client_id, quiz content) that
\* does not depend on the order of the quiz's fields: equal client_id and
\* equal content give the same key; a different client_id, or a different
\* value of any quiz field, gives a different key (the digest taken as
\* injective).
C16_KeyStable ==
    sc_pc = "returned" =>
        LET a == sc_args
            same == AsDict(a.quiz1) = AsDict(a.quiz2)
        IN  /\ sc_result.key1 = generate_cache_key(a.id1, a.quiz1)
            /\ sc_result.key1.prefix = "match"
            /\ sc_result.key1.client_id = a.id1
            /\ (a.id1 = a.id2 /\ same) => sc_result.key1 = sc_result.key2
            /\ (a.id1 # a.id2 \/ ~same) => sc_result.key1 # sc_result.key2

\* One client, one quiz content held in two insertion orders, one key
C16_ReorderedQuizSameKey ==
    /\ sc_pc = "returned"
    /\ sc_args.id1 = sc_args.id2
    /\ sc_args.quiz1 # sc_args.quiz2
    /\ sc_args.quiz1[1][1] # sc_args.quiz2[1][1]
    /\ AsDict(sc_args.quiz1) = AsDict(sc_args.quiz2)
    /\ sc_result.key1 = sc_result.key2

\* C15: invalidate_client_match_cache(c) removes every stored key
\* match:<c>:<hash> and nothing else: the match entries of every other client
\* and all non-match keys keep their values and TTLs.  Stated of the call on
\* every reachable store, and of the store DELETE /match/cache leaves.
C15_OnlyClientKeysRemoved ==
    /\ \A c \in Users :
         is_available =>
           LET d == invalidate_client_match_cache(is_available, store, c, FALSE)
               gone == {k \in DOMAIN store :
                           k.prefix = "match" /\ k.client_id = c}
           IN  /\ ~d.raised
               /\ DOMAIN d.store = (DOMAIN store) \ gone
               /\ \A k \in DOMAIN d.store : d.store[k] = store[k]
               /\ d.deleted = Cardinality(gone)
    /\ \A r \in DOMAIN req :
         LET q == req[r]
         IN  (/\ q.op = "clear" /\ q.pc = "done"
              /\ q.response.status = 204
              /\ is_available /\ ~q.info.fault) =>
                \A k \in DOMAIN store :
                    ~(k.prefix = "match" /\ k.client_id = q.user)

\* A client's entry was removed while another client's match entry and a
\* non-match key stayed
C15_OthersKept ==
    \E r \in DOMAIN req :
        LET q == req[r]
        IN  /\ q.op = "clear" /\ q.user = "alice"
            /\ q.info.deleted = 1
            /\ ListingKey \in DOMAIN store
            /\ \E k \in DOMAIN store : k.prefix = "match" /\ k.client_id = "bob"
            /\ \A k \in DOMAIN store : k.client_id # "alice"

CoachChanged(q) ==
    /\ q.pc = "done"
    /\ q.op \in {"update_coach", "coach_photo", "delete_coach"}
    /\ q.response.status = 200

\* C13: every operation that changes a coach's profile data (an update
\* through either endpoint, a photo change, an account deletion) invalidates
\* all match:* entries before it returns: once it has returned the store holds
\* no match payload computed before the change.
C13_CoachChangeInvalidatesAll ==
    \A r \in DOMAIN req :
        CoachChanged(req[r]) => \A k \in DOMAIN store : k.prefix # "match"

\* A coach's photo changed while a cached list still shows the old one
C13_StalePhotoCached ==
    \E r \in DOMAIN req, k \in DOMAIN store :
        /\ CoachChanged(req[r]) /\ req[r].op = "coach_photo"
        /\ k.prefix = "match"
        /\ store[k].value.kind = "json"
        /\ \E i \in 1..Len(store[k].value.doc.matches) :
              LET m == store[k].value.doc.matches[i]
              IN  /\ m.coach_id = req[r].coaches[1].id
                  /\ m.photo_url # coach_db[m.coach_id].photo_url

\* C14: when a client's profile update commits, every entry whose key starts
\* with match:<that client's id>: is removed before the update returns, so the
\* client's next match request is a miss computed from the updated profile.
C14_ClientUpdateInvalidates ==
    \A r \in DOMAIN req :
        LET q == req[r]
        IN  (q.pc = "done" /\ q.op = "update_client" /\ q.response.status = 200) =>
              \A k \in DOMAIN store :
                  ~(k.prefix = "match" /\ k.client_id = q.user)

\* A committed client update after which the client's entry, computed from
\* the profile before the update, is still in the store
C14_StaleEntryKept ==
    \E r \in DOMAIN req, k \in DOMAIN store :
        LET q == req[r]
        IN  /\ q.pc = "done" /\ q.op = "update_client"
            /\ q.response.status = 200
            /\ profiles[q.user].timezone = "CET"
            /\ k = generate_cache_key(q.user, StoredItems(profiles[q.user].quiz_data))
            /\ origin[k] = "ranked"

\* C18: under any interleaving of two concurrent match requests that derive
\* the same cache key, both return correct results and the two payloads they
\* write are equivalent, so whichever write lands last leaves the same cached
\* value.
C18_ConcurrentWritesEquivalent ==
    \A r1, r2 \in DOMAIN req :
        LET q1 == req[r1]
            q2 == req[r2]
        IN  (/\ r1 # r2
             /\ MatchDone(q1) /\ MatchDone(q2)
             /\ q2.overlaps
             /\ q1.cache_key = q2.cache_key
             /\ q1.set_result = "stored" /\ q2.set_result = "stored") =>
                /\ q1.found = q2.found
                /\ store[q1.cache_key].value.doc.matches = q1.found

\* Two overlapping requests of one client, every embedding call answered,
\* that wrote lists of different length under one key
C18_LimitsWriteDifferentPayloads ==
    \E r1, r2 \in DOMAIN req :
        LET q1 == req[r1]
            q2 == req[r2]
        IN  /\ r1 # r2
            /\ MatchDone(q1) /\ MatchDone(q2)
            /\ q2.overlaps
            /\ q1.cache_key = q2.cache_key
            /\ q1.set_result = "stored" /\ q2.set_result = "stored"
            /\ q1.kinds = {"ok"} /\ q2.kinds = {"ok"}
            /\ q1.path = "ranked" /\ q2.path = "ranked"
            /\ q1.limit = 1 /\ q2.limit = 2
            /\ Len(q1.found) = 1 /\ Len(q2.found) = 2
            /\ store[q1.cache_key].value.doc.total_matches = 1

\* C21: when get_active_coaches returns no coach, a match request of a valid
\* client that goes to find_matches is answered 200 with matches = [] and
\* total_matches = 0: nothing is raised, no embedding call is issued and the
\* fallback is not used.
C21_NoCoachesEmptyResult ==
    \A r \in DOMAIN req :
        LET q == req[r]
        IN  (/\ MatchDone(q)
             /\ q.lookup # "none"
             /\ ~q.response.cached
             /\ get_active_coaches(coach_db, CandidateLimit) = <<>>) =>
                /\ q.response.status = 200
                /\ q.response.matches = <<>>
                /\ q.response.total_matches = 0
                /\ q.path = "empty"
                /\ ~q.exc
                /\ q.calls = 0

\* No active coach, find_matches returned [] without a call to the provider or
\* the fallback, and the request was answered 500 because the cache write
\* raised
C21_EmptyResultAnswered500 ==
    \E r \in DOMAIN req :
        LET q == req[r]
        IN  /\ MatchDone(q) /\ q.path = "empty"
            /\ q.coaches = <<>> /\ q.found = <<>>
            /\ q.calls = 0 /\ ~q.exc
            /\ q.set_result = "raised"
            /\ q.response.status = 500

\* The required factors the quiz of user u lacks
MissingFactors(u) == {f \in RequiredFields : f \notin DOMAIN profiles[u].quiz_data}

\* C22: a match request of a client whose quiz lacks one of the ten required
\* factors is answered with a validation error (400) before the cache is
\* read, a coach fetched, a score computed or an embedding call made, and the
\* cache holds nothing written for it: no missing factor is replaced by a
\* default and scored.
C22_IncompleteQuizRejected ==
    \A r \in DOMAIN req :
        LET q == req[r]
        IN  (/\ q.op = "match"
             /\ profiles[q.user].role = "client"
             /\ profiles[q.user].has_profile
             /\ MissingFactors(q.user) # {}) =>
                /\ q.pc = "done"
                /\ q.response.status = 400
                /\ q.response.matches = <<>>
                /\ q.lookup = "none"
                /\ q.cache_key = NoKey
                /\ q.client_data = NoClientData
                /\ q.coaches = <<>>
                /\ q.matches = <<>>
                /\ q.calls = 0
                /\ q.path = "none"
                /\ q.set_result = "none"
                /\ \A k \in DOMAIN store : k.client_id # q.user

\* A request of the client whose quiz lacks only preferred_languages, a factor
\* normalize_client_data would default to [], was rejected with 400
C22_MissingLanguagesRejected ==
    \E r \in DOMAIN req :
        LET q == req[r]
        IN  /\ MatchDone(q) /\ q.user = "carol"
            /\ MissingFactors("carol") = {"preferred_languages"}
            /\ q.response.status = 400
            /\ store = EmptyStore

\* The coaches get_active_coaches selects from: verified, user account active
ActiveCoachIds ==
    {c \in DOMAIN coach_db : coach_db[c].is_verified /\ coach_db[c].user_active}

Processed(q) ==
    IF q.pc = "scoring" THEN q.idx - 1
    ELSE IF q.path = "fallback" THEN q.idx
    ELSE IF q.path = "ranked" THEN Len(q.coaches)
    ELSE 0

\* C24: within one match request no embedding call is issued again: the
\* request has issued at most two calls per candidate it has scored, and a
\* candidate whose call failed or timed out is scored, dropped or ends the
\* loop, once.
C24_NoEmbeddingRetry ==
    \A r \in DOMAIN req :
        LET q == req[r]
            scored == {q.matches[i].coach_id : i \in 1..Len(q.matches)}
        IN  q.op = "match" =>
              /\ q.calls <= 2 * Processed(q)
              /\ Cardinality(scored) = Len(q.matches)
              /\ scored \cap q.dropped = {}
              /\ Len(q.matches) + Cardinality(q.dropped) =
                    IF q.path = "fallback" THEN Processed(q) - 1 ELSE Processed(q)

\* A request over two candidates: a provider error for one, a timeout for the
\* other, three embedding calls in all
C24_FailedCallsNotRepeated ==
    \E r \in DOMAIN req :
        LET q == req[r]
        IN  /\ MatchDone(q) /\ q.path = "ranked"
            /\ Len(q.coaches) = 2
            /\ {"api_error", "timeout"} \subseteq q.kinds
            /\ Cardinality(q.dropped) = 1
            /\ Len(q.matches) = 1
            /\ q.calls = 3

\* C25: calculate_goal_expertise_score returns a value in [0, 1] for every
\* input, the cosine similarity of two embedding vectors included.
C25_GoalScoreInUnitInterval ==
    sc_pc = "returned" =>
        /\ RatLeq(Zero, sc_result.goal_score)
        /\ RatLeq(sc_result.goal_score, One)

\* Both embeddings were obtained, the vectors point in opposite directions,
\* and the semantic score returned is -1.0
C25_NegativeCosine ==
    /\ sc_pc = "returned"
    /\ sc_emb = <<"ok", "ok">>
    /\ HasTexts(sc_args)
    /\ sc_result.goal_score = <<-1, 1>>

\* Request q read at least one coach row that is no longer the row of the table
ReadStaleCoaches(q) ==
    \E i \in 1..Len(q.coaches) :
        \/ q.coaches[i].id \notin DOMAIN coach_db
        \/ q.coaches[i] # coach_db[q.coaches[i].id]

\* The finished match request whose stored payload is the list `matches`
\* under key k
WriterOf(k, matches) ==
    {r \in DOMAIN req :
        /\ MatchDone(req[r]) /\ req[r].set_result = "stored"
        /\ req[r].cache_key = k /\ req[r].found = matches}

\* C26: under any interleaving of a match request with a coach profile
\* update, once the update and its invalidation have completed the store holds
\* no payload a request computed from the coach rows as they were before the
\* update, and no later cache hit returns one.
C26_NoStalePayloadAfterUpdate ==
    (req[2].pc = "done" /\ req[2].op = "update_coach"
        /\ req[2].response.status = 200) =>
      /\ \A k \in DOMAIN store :
            k.prefix = "match" =>
              \A w \in WriterOf(k, store[k].value.doc.matches) :
                  ~ReadStaleCoaches(req[w])
      /\ (MatchDone(req[3]) /\ req[3].response.cached) =>
            \A w \in WriterOf(req[3].cache_key, req[3].response.matches) :
                ~ReadStaleCoaches(req[w])

\* A request that arrived after the update was served, with cached = true, a
\* list the earlier request computed from the coach's old hourly_rate: the
\* coach's match_score in it is not the score of the updated row
C26_StaleHitAfterUpdate ==
    /\ req[2].pc = "done" /\ req[2].op = "update_coach"
    /\ MatchDone(req[1]) /\ req[1].set_result = "stored"
    /\ ReadStaleCoaches(req[1])
    /\ MatchDone(req[3]) /\ req[3].response.cached
    /\ req[3].response.matches = req[1].found
    /\ \E i \in 1..Len(req[3].response.matches) :
          LET m == req[3].response.matches[i]
          IN  /\ m.coach_id = req[2].coaches[1].id
              /\ m.match_score #
                   Round2(calculate_match_score(has_client,
                       normalize_client_data(profiles["alice"]),
                       normalize_coach_data(coach_db[m.coach_id]),
                       CHOOSE o \in RaceOutcomes : TRUE,
                       CHOOSE o \in RaceOutcomes : TRUE).total)

\* What find_matches returns for client u and `limit` on the current tables
\* when the service has no embedding provider, so that every score is a
\* function of the rows: the ranked list, or the fallback when a scorer raises
FreshMatches(u, limit) ==
    LET client_data == normalize_client_data(profiles[u])
        coaches == get_active_coaches(coach_db, CandidateLimit)
        scored == [i \in 1..Len(coaches) |->
                      score_with_deadline(FALSE, client_data,
                          normalize_coach_data(coaches[i]), NoOutcome, NoOutcome)]
    IN  IF \E i \in 1..Len(coaches) : scored[i].kind = "raised"
        THEN get_fallback_matches(coach_db, limit)
        ELSE RankMatches([i \in 1..Len(coaches) |->
                             MatchEntry(coaches[i], scored[i].score)], limit)

\* C27: with quiz and coach data unchanged, a response served from the cache
\* equals what a fresh computation of the same request would return: it holds
\* at most the request's limit N matches, and min(N, available candidates) of
\* them, whatever the limit of the request that produced the cached entry.
C27_CachedEqualsFresh ==
    \A r \in DOMAIN req :
        LET q == req[r]
        IN  (MatchDone(q) /\ q.response.cached /\ ~has_client) =>
              /\ Len(q.response.matches) <= q.limit
              /\ Len(q.response.matches) =
                    Min(q.limit, Len(get_active_coaches(coach_db, CandidateLimit)))
              /\ q.response.matches = FreshMatches(q.user, q.limit)
              /\ q.response.total_matches = Len(q.response.matches)

\* A request with limit 1 was served from the cache the two matches an
\* earlier request with limit 2 had stored
C27_HitLongerThanLimit ==
    \E r \in DOMAIN req :
        LET q == req[r]
        IN  /\ MatchDone(q) /\ q.lookup = "hit" /\ q.response.cached
            /\ q.user = "alice"
            /\ q.limit = 1
            /\ Len(q.response.matches) = 2
            /\ q.response.total_matches = 2
            /\ Len(FreshMatches(q.user, q.limit)) = 1

\* C28: serving a match request from the cache leaves the store as it was:
\* the payload under the key is not rewritten, its expiry is not extended, no
\* other key is touched; and the request fetches no coach and issues no
\* embedding call.
C28_HitLeavesStoreUnchanged ==
    [][\A r \in DOMAIN req :
          (/\ req[r].pc \in {"idle", "done"}
           /\ req'[r] # req[r]
           /\ req'[r].op = "match"
           /\ req'[r].response.cached) =>
             /\ store' = store
             /\ now' = now
             /\ coach_db' = coach_db
             /\ req'[r].pc = "done"
             /\ req'[r].lookup = "hit"
             /\ req'[r].coaches = <<>>
             /\ req'[r].matches = <<>>
             /\ req'[r].calls = 0
             /\ req'[r].set_result = "none"
             /\ req'[r].cache_key \in DOMAIN store
             /\ store[req'[r].cache_key].value.kind = "json"
             /\ req'[r].response.matches =
                    store[req'[r].cache_key].value.doc.matches]_vars

\* A request served from the cache twelve hours after the entry was written:
\* the entry still expires at hour 24 and the coaches-list entry is in place
C28_HitAfterTwelveHours ==
    \E r \in DOMAIN req :
        LET q == req[r]
        IN  /\ MatchDone(q) /\ q.lookup = "hit" /\ q.response.cached
            /\ now = ClockStep
            /\ q.response.generated_at = 0
            /\ q.response.matches # <<>>
            /\ q.cache_key \in DOMAIN store
            /\ store[q.cache_key].expires = TtlHours
            /\ ListingKey \in DOMAIN store
            /\ q.calls = 0 /\ q.coaches = <<>>

\* The step in which the match request of slot r arrives and gets past the
\* role, profile and quiz checks
LookupStep(r) ==
    /\ req[r].pc \in {"idle", "done"}
    /\ req'[r] # req[r]
    /\ req'[r].op = "match"
    /\ req'[r].lookup # "none"

\* C29 as stated: a match response has cached = true if and only if the
\* request had use_cache = true and an unexpired entry existed under its key
\* at lookup time.
C29_CachedIffEntryExisted ==
    [][\A r \in DOMAIN req :
          LookupStep(r) =>
             (req'[r].response.cached <=>
                (req'[r].use_cache /\ req'[r].cache_key \in DOMAIN store))]_vars

\* C29, amended: cached = true if and only if use_cache = true and the lookup
\* returned a payload (the store was reachable and answered the read, and held
\* under the key an unexpired value that is JSON); the response then carries
\* the matches, total_matches and generated_at stored under the key, the
\* generated_at being the time of the computation; a request with
\* use_cache = false never returns cached = true.
C29_CachedIffLookupReturned ==
    [][\A r \in DOMAIN req :
          LookupStep(r) =>
             LET q == req'[r]
                 k == q.cache_key
             IN  /\ q.response.cached <=>
                       /\ q.use_cache
                       /\ is_available
                       /\ q.lookup # "error"
                       /\ k \in DOMAIN store
                       /\ store[k].value.kind = "json"
                 /\ q.response.cached =>
                       /\ q.response.status = 200
                       /\ store[k].expires > now
                       /\ q.response.matches = store[k].value.doc.matches
                       /\ q.response.total_matches = store[k].value.doc.total_matches
                       /\ q.response.generated_at = store[k].value.doc.generated_at
                       /\ q.response.generated_at = store[k].expires - TtlHours
                 /\ ~q.use_cache => ~q.response.cached]_vars

\* A request with use_cache = true answered from the cache twelve hours after
\* the computation, carrying the computation's generated_at
C29_HitCarriesComputationTime ==
    \E r \in DOMAIN req :
        LET q == req[r]
        IN  /\ MatchDone(q) /\ q.use_cache /\ q.lookup = "hit"
            /\ q.response.cached
            /\ q.response.matches # <<>>
            /\ now = ClockStep
            /\ q.response.generated_at = 0
            /\ origin[q.cache_key] = "ranked"

\* The match entries of the store that a match request wrote
WrittenMatchKeys ==
    {k \in DOMAIN store : k.prefix = "match" /\ store[k].value.kind = "json"}

\* C30: every match entry is written with an expiry of 24 hours from the
\* generated_at it holds; the expiry of an entry changes only when a request
\* that computed its matches afresh writes the entry again; and no response
\* with cached = true is served 24 hours or more after the generated_at it
\* carries.
C30_ServedWithinTtl ==
    [][/\ \A k \in WrittenMatchKeys :
             /\ store[k].expires = store[k].value.doc.generated_at + TtlHours
             /\ now < store[k].expires
       /\ \A k \in (DOMAIN store) \cap (DOMAIN store') :
             store'[k] # store[k] =>
                \E r \in DOMAIN req :
                    /\ req[r].pc = "scoring" /\ req'[r].pc = "done"
                    /\ req'[r].path \in {"ranked", "fallback"}
                    /\ req'[r].set_result = "stored"
                    /\ req'[r].cache_key = k
                    /\ req'[r].response.generated_at = now
                    /\ store'[k].expires = now + TtlHours
       /\ \A r \in DOMAIN req :
             (LookupStep(r) /\ req'[r].response.cached) =>
                /\ req'[r].response.generated_at <= now
                /\ now - req'[r].response.generated_at < TtlHours]_vars

\* Twenty-four hours after a request stored its matches, a request with
\* use_cache = true found no entry and computed the matches again
C30_MissAtTwentyFourHours ==
    \E r1, r2 \in DOMAIN req :
        LET q1 == req[r1]
            q2 == req[r2]
        IN  /\ r1 # r2
            /\ MatchDone(q1) /\ q1.set_result = "stored"
            /\ q1.response.generated_at = 0
            /\ MatchDone(q2) /\ q2.use_cache /\ q2.lookup = "miss"
            /\ q2.cache_key = q1.cache_key
            /\ ~q2.response.cached
            /\ q2.response.generated_at = TtlHours
            /\ now = TtlHours
            /\ store[q2.cache_key].expires = 2 * TtlHours

====
